---- MODULE Spec2Model ----
(***************************************************************************)
(* rgrep: the single-source search driver (run_on_reader), the follow     *)
(* engine's context evaluator (FollowEngine::handle_line), the            *)
(* multi-source aggregator (run), the boolean expression parser           *)
(* (parse_boolean_expression), the choice and the evaluation of the        *)
(* matcher, and follow mode (follow) on a file that changes under it.      *)
(*                                                                         *)
(* The regex engine is external. In the specifications of run_on_reader    *)
(* and run a line carries the decision the compiled matcher gives for it   *)
(* (field m) instead of its characters; in the matching and the follow     *)
(* specification lines are texts and the engine is the operator is_match,  *)
(* for patterns without escapes and groups.                                *)
(***************************************************************************)
EXTENDS Integers, Sequences, FiniteSets, TLC

\* ---------------------------------------------------------------- bounds
\* longest source of the single-source specification
MaxLines == 4
\* largest before/after context setting
MaxCtx == 2
\* most input files of one run
MaxFiles == 2

\* ------------------------------------------------------- program constants
\* is_binary_path reads at most this many bytes
BinaryPrefix == 4096

\* ------------------------------------------------------------------ state
VARIABLES
    cfg,        \* Config of the call
    lines,      \* run_on_reader: the source's lines (read_to_lines)
    rd,         \* run_on_reader: locals of the loop (idx, before_buf, ...)
    rpc,        \* run_on_reader: "start", "loop" or "done"
    result,     \* run_on_reader: the value returned
    engine,     \* FollowEngine fed the same lines
    fidx,       \* number of lines the follow engine has been fed
    fout,       \* what the follow engine has printed
    files,      \* run: expand_inputs(cfg, inputs)
    phase,      \* run: "start", "parallel" or "done"
    pending,    \* run: workers that have not completed
    results,    \* run: (idx, result) pairs in completion order
    runResult,  \* run: the value returned
    raw,        \* the joined pattern string, cfg.patterns.join("")
    ppc,        \* pattern handling: "start", "parsed" or "selected"
    parsed,     \* the value parse_boolean_expression(raw) returned
    matcher,    \* the matcher run_on_reader selected for raw
    mline,      \* the text of the line the matcher is asked about
    verdict,    \* is_match and final_match of run_on_reader, and follow's, for mline
    disk,       \* follow: the target file as the file system has it
    fpc,        \* follow: "start", "waiting", "poll", "read", "restat", "returned"
    fret,       \* follow: the error returned
    fpos,       \* follow: the read offset (pos)
    flog,       \* follow: what it has observed, read and printed, in order
    nb,         \* the number of bytes ever written to the target file
    nw          \* the number of changes of the target file so far

vars == <<cfg, lines, rd, rpc, result, engine, fidx, fout,
          files, phase, pending, results, runResult,
          raw, ppc, parsed, matcher, mline, verdict,
          disk, fpc, fret, fpos, flog, nb, nw>>

readerVars == <<lines, rd, rpc, result, engine, fidx, fout>>
runVars == <<files, phase, pending, results, runResult>>
parseVars == <<raw, ppc, parsed, matcher>>
matchVars == <<mline, verdict>>
followVars == <<disk, fpc, fret, fpos, flog, nb, nw>>

\* ------------------------------------------------------------------ lines
\* Option::None of a parsed timestamp
NoTs == <<>>
\* Option values are sequences of length 0 (None) or 1 (Some(x))
None == <<>>
Some(x) == <<x>>

\* A line of text. id: its text (lines with different ids differ); m: the
\* matcher's is_match on it; ts: the timestamp written in it (NoTs: none);
\* cut: a match span of the display regex splits the timestamp's text;
\* hl: the text carries highlight markers (never in a source line);
\* cr: the text ends with a carriage return (the line ended "\r\r\n", or
\* "\r" at the end of the input; read_to_lines drops one "\r\n" or "\n" only).
Line(id, m, ts, cut) ==
    [id |-> id, m |-> m, ts |-> ts, cut |-> cut, hl |-> FALSE, cr |-> FALSE]

\* ---------------------------------------------------------------- Config
PatOk == "ok"
PatEmpty == "empty"
PatParse == "parse"
PatCompile == "compile"

Config(patterns, invert, count, quiet, line, color, before, after) ==
    [patterns |-> patterns, invert |-> invert, count |-> count, quiet |-> quiet,
     line |-> line, color |-> color, before |-> before, after |-> after]

MatchFound == "MatchFound"
NoMatch == "NoMatch"

RunResult(output, status) == [ok |-> TRUE, output |-> output, status |-> status]
Err(msgs) == [ok |-> FALSE, errs |-> msgs]

\* ----------------------------------------------------------- run_on_reader
\* regex.is_match(raw_line): the external engine's answer for the line
IsMatch(raw_line) == raw_line.m

\* mutant of FinalMatch: invert is not applied
FinalMatch_IgnoresInvert(c, raw_line) == IsMatch(raw_line)

\* let final_match = if cfg.invert { !is_match } else { is_match }
FinalMatch(c, raw_line) == IF c.invert THEN ~IsMatch(raw_line) ELSE IsMatch(raw_line)

\* highlight_segments: markers are put around every span the display regex
\* finds; a line it does not match is returned as it is
highlight_segments(raw_line) ==
    IF IsMatch(raw_line) THEN [raw_line EXCEPT !.hl = TRUE] ELSE raw_line

\* mutant of append_formatted_line: the 0-based index is printed
append_formatted_line_ZeroBased(out, filename, idx, text) ==
    Append(out, [kind |-> "line", src |-> filename, n |-> idx, text |-> text])

\* append_formatted_line: "<idx + 1>:<line>". The filename is not printed; the
\* entry keeps it (src) only to tell which source a line of the output is from.
append_formatted_line(out, filename, idx, text) ==
    Append(out, [kind |-> "line", src |-> filename, n |-> idx + 1, text |-> text])

\* the "<name>:<count>" or "<count>" line of count mode
CountLine(name, match_count) ==
    [kind |-> "count", name |-> name, count |-> match_count]

\* the locals of run_on_reader before the loop
ReaderInit ==
    [idx |-> 0, before_buf |-> <<>>, after_remaining |-> 0, out |-> <<>>,
     matched_any |-> FALSE, match_count |-> 0]

\* mutant of PushBefore: the oldest entry is never dropped
PushBefore_Unbounded(c, buf, idx, raw_line) ==
    IF c.before > 0 THEN Append(buf, [idx |-> idx, line |-> raw_line]) ELSE buf

\* before_buf.push_back((idx, line)), dropping the oldest beyond `before`
PushBefore(c, buf, idx, raw_line) ==
    IF c.before > 0
    THEN LET b == Append(buf, [idx |-> idx, line |-> raw_line])
         IN IF Len(b) > c.before THEN Tail(b) ELSE b
    ELSE buf

\* while let Some((bidx, bline)) = before_buf.pop_front() { append ... }
RECURSIVE DrainBefore(_, _, _)
DrainBefore(out, name, buf) ==
    IF buf = <<>> THEN out
    ELSE DrainBefore(append_formatted_line(out, name, Head(buf).idx, Head(buf).line),
                     name, Tail(buf))

\* mutant of LoopBody: count mode does not bypass the context evaluation
LoopBody_CountKeepsText(c, st, name, raw_line) ==
    LET final_match == FinalMatch(c, raw_line)
        idx == st.idx
        st1 == IF final_match
               THEN [st EXCEPT !.matched_any = TRUE, !.match_count = @ + 1, !.idx = @ + 1]
               ELSE [st EXCEPT !.idx = @ + 1]
    IN IF final_match
       THEN [st1 EXCEPT !.out = append_formatted_line(
                                    DrainBefore(st1.out, name, st1.before_buf),
                                    name, idx, raw_line),
                        !.before_buf = <<>>,
                        !.after_remaining = c.after]
       ELSE [st1 EXCEPT !.before_buf = PushBefore(c, st1.before_buf, idx, raw_line)]

\* one iteration of the loop over lines.iter().enumerate()
LoopBody(c, st, name, raw_line) ==
    LET final_match == FinalMatch(c, raw_line)
        idx == st.idx
        st1 == IF final_match
               THEN [st EXCEPT !.matched_any = TRUE, !.match_count = @ + 1, !.idx = @ + 1]
               ELSE [st EXCEPT !.idx = @ + 1]
    IN IF c.count THEN [st1 EXCEPT !.after_remaining = c.after]
       ELSE IF final_match
       THEN LET out1 == IF c.before > 0 THEN DrainBefore(st1.out, name, st1.before_buf)
                        ELSE st1.out
                buf1 == IF c.before > 0 THEN <<>> ELSE st1.before_buf
                text == IF c.color /\ ~c.line THEN highlight_segments(raw_line)
                        ELSE raw_line
            IN [st1 EXCEPT !.out = append_formatted_line(out1, name, idx, text),
                           !.before_buf = buf1,
                           !.after_remaining = c.after]
       ELSE LET buf1 == PushBefore(c, st1.before_buf, idx, raw_line)
            IN IF st1.after_remaining > 0
               THEN [st1 EXCEPT !.before_buf = buf1,
                                !.out = append_formatted_line(@, name, idx, raw_line),
                                !.after_remaining = @ - 1]
               ELSE [st1 EXCEPT !.before_buf = buf1]

\* the error run_on_reader returns before it reads anything, if any
PatternError(c) ==
    IF c.patterns = PatEmpty THEN Some("no pattern provided")
    ELSE IF c.patterns = PatParse THEN Some("Boolean expression parse error")
    ELSE IF c.patterns = PatCompile THEN Some("regex parse error")
    ELSE None

\* mutant of ReaderFinish: quiet does not clear the output
ReaderFinish_QuietKeepsOutput(c, st, name) ==
    RunResult(IF c.count THEN Append(st.out, CountLine(name, st.match_count)) ELSE st.out,
              IF st.matched_any THEN MatchFound ELSE NoMatch)

\* mutant of ReaderFinish: quiet reports a match only when lines were printed
ReaderFinish_QuietStatusFromOutput(c, st, name) ==
    IF c.quiet
    THEN RunResult(<<>>, IF st.out # <<>> THEN MatchFound ELSE NoMatch)
    ELSE RunResult(IF c.count THEN Append(st.out, CountLine(name, st.match_count))
                   ELSE st.out,
                   IF st.matched_any THEN MatchFound ELSE NoMatch)

\* what run_on_reader returns after the loop
ReaderFinish(c, st, name) ==
    LET out == IF c.count /\ ~c.quiet
               THEN Append(st.out, CountLine(name, st.match_count))
               ELSE st.out
        status == IF st.matched_any THEN MatchFound ELSE NoMatch
    IN IF c.quiet THEN RunResult(<<>>, status) ELSE RunResult(out, status)

RECURSIVE ReaderLoop(_, _, _, _)
ReaderLoop(c, st, name, ls) ==
    IF ls = <<>> THEN st
    ELSE ReaderLoop(c, LoopBody(c, st, name, Head(ls)), name, Tail(ls))

\* a reader: read_to_lines fails on it (fails), or gives its lines
Reader(fails, ls) == [fails |-> fails, lines |-> ls]

\* run_on_reader(cfg, reader, name)
run_on_reader(c, reader, name) ==
    IF PatternError(c) # None THEN Err(PatternError(c))
    ELSE IF reader.fails THEN Err(<<"read error">>)
    ELSE ReaderFinish(c, ReaderLoop(c, ReaderInit, name, reader.lines), name)

\* ------------------------------------------------------------ FollowEngine
\* FollowEngine::new
FollowEngineNew(before_n, after_n) ==
    [before_n |-> before_n, after_n |-> after_n, before_buf |-> <<>>,
     after_remaining |-> 0]

\* FollowEngine::handle_line: the engine afterwards and the lines to print
handle_line(e, line, is_match) ==
    IF is_match
    THEN [engine |-> [e EXCEPT !.after_remaining = e.after_n, !.before_buf = <<>>],
          out |-> (IF e.before_n > 0 THEN e.before_buf ELSE <<>>) \o <<line>>]
    ELSE IF e.after_remaining > 0
    THEN [engine |-> [e EXCEPT !.after_remaining = @ - 1], out |-> <<line>>]
    ELSE IF e.before_n > 0
    THEN [engine |-> [e EXCEPT !.before_buf =
                        Append(IF Len(@) = e.before_n THEN Tail(@) ELSE @, line)],
          out |-> <<>>]
    ELSE [engine |-> e, out |-> <<>>]

\* mutant of print_match_lines: every printed line is highlighted
print_match_lines_HighlightsAll(c, ls) ==
    IF c.color /\ ~c.line
    THEN [i \in 1..Len(ls) |-> highlight_segments(ls[i])]
    ELSE ls

\* print_match_lines: the last line (the match) is highlighted under color
print_match_lines(c, ls) ==
    IF c.color /\ ~c.line
    THEN [i \in 1..Len(ls) |-> IF i = Len(ls) THEN highlight_segments(ls[i]) ELSE ls[i]]
    ELSE ls

\* process_line: the engine afterwards and what is printed
process_line(c, e, line) ==
    LET final_match == FinalMatch(c, line)
        h == handle_line(e, line, final_match)
    IN [engine |-> h.engine,
        printed |-> IF final_match THEN print_match_lines(c, h.out) ELSE h.out]

\* ---------------------------------------------------------- boolean_parser
\* A pattern string is the sequence of its characters.
\* BooleanExpr
Pattern(p) == [op |-> "Pattern", pattern |-> p]
And(l, r) == [op |-> "And", left |-> l, right |-> r]
Or(l, r) == [op |-> "Or", left |-> l, right |-> r]

\* Result of the parser: Ok(expr) with the position reached, or Err(message)
ParseOk(e, pos) == [ok |-> TRUE, expr |-> e, pos |-> pos]
ParseErr(msg) == [ok |-> FALSE, err |-> msg]

ExpectedClosing == "Expected closing parenthesis"
ExpectedPattern == "Expected pattern"

\* char::is_whitespace, for the characters of the inputs
is_whitespace(ch) == ch = " "

\* BooleanParser::current_char
current_char(input, pos) == IF pos < Len(input) THEN Some(input[pos + 1]) ELSE None

\* BooleanParser::skip_whitespace: the position afterwards
RECURSIVE skip_whitespace(_, _)
skip_whitespace(input, pos) ==
    IF pos < Len(input) /\ is_whitespace(input[pos + 1])
    THEN skip_whitespace(input, pos + 1)
    ELSE pos

\* mutant of PatternLoop: the backslash of an escape is not kept
RECURSIVE PatternLoop_DropsBackslash(_, _, _, _)
PatternLoop_DropsBackslash(input, pos, pattern, escaped) ==
    IF pos >= Len(input) THEN [pattern |-> pattern, pos |-> pos]
    ELSE LET ch == input[pos + 1]
         IN IF escaped
            THEN PatternLoop_DropsBackslash(input, pos + 1, Append(pattern, ch), FALSE)
            ELSE IF ch = "\\"
            THEN PatternLoop_DropsBackslash(input, pos + 1, pattern, TRUE)
            ELSE IF ch = "&" \/ ch = "|" \/ ch = ")" \/ is_whitespace(ch)
            THEN [pattern |-> pattern, pos |-> pos]
            ELSE PatternLoop_DropsBackslash(input, pos + 1, Append(pattern, ch), FALSE)

\* the literal run of parse_primary_expression: the pattern and the position
\* after `while let Some(ch) = self.current_char() { ... }`
RECURSIVE PatternLoop(_, _, _, _)
PatternLoop(input, pos, pattern, escaped) ==
    IF pos >= Len(input) THEN [pattern |-> pattern, pos |-> pos]
    ELSE LET ch == input[pos + 1]
         IN IF escaped
            THEN PatternLoop(input, pos + 1, Append(pattern, ch), FALSE)
            ELSE IF ch = "\\"
            THEN PatternLoop(input, pos + 1, Append(pattern, ch), TRUE)
            ELSE IF ch = "&" \/ ch = "|" \/ ch = ")" \/ is_whitespace(ch)
            THEN [pattern |-> pattern, pos |-> pos]
            ELSE PatternLoop(input, pos + 1, Append(pattern, ch), FALSE)

RECURSIVE parse_or_expression(_, _)
RECURSIVE parse_and_expression(_, _)
RECURSIVE parse_primary_expression(_, _)

\* mutant of parse_primary_expression: an empty literal run is accepted
parse_primary_expression_AllowsEmpty(input, pos0) ==
    LET pos == skip_whitespace(input, pos0)
    IN IF current_char(input, pos) = Some("(")
       THEN LET r == parse_or_expression(input, pos + 1)
            IN IF ~r.ok THEN r
               ELSE LET p2 == skip_whitespace(input, r.pos)
                    IN IF current_char(input, p2) # Some(")")
                       THEN ParseErr(ExpectedClosing)
                       ELSE ParseOk(r.expr, p2 + 1)
       ELSE LET lit == PatternLoop(input, pos, <<>>, FALSE)
            IN ParseOk(Pattern(lit.pattern), lit.pos)

\* BooleanParser::parse_primary_expression from position pos0
parse_primary_expression(input, pos0) ==
    LET pos == skip_whitespace(input, pos0)
    IN IF current_char(input, pos) = Some("(")
       THEN LET r == parse_or_expression(input, pos + 1)
            IN IF ~r.ok THEN r
               ELSE LET p2 == skip_whitespace(input, r.pos)
                    IN IF current_char(input, p2) # Some(")")
                       THEN ParseErr(ExpectedClosing)
                       ELSE ParseOk(r.expr, p2 + 1)
       ELSE LET lit == PatternLoop(input, pos, <<>>, FALSE)
            IN IF lit.pattern = <<>>
               THEN ParseErr(ExpectedPattern)
               ELSE ParseOk(Pattern(lit.pattern), lit.pos)

\* mutant of AndLoop: the rest of the '&' chain becomes the right operand
AndLoop_RightAssoc(input, left, pos) ==
    IF current_char(input, pos) = Some("&")
    THEN LET r == parse_and_expression(input, pos + 1)
         IN IF ~r.ok THEN r ELSE ParseOk(And(left, r.expr), r.pos)
    ELSE ParseOk(left, pos)

\* `while self.current_char() == Some('&') { ... }` of parse_and_expression
RECURSIVE AndLoop(_, _, _)
AndLoop(input, left, pos) ==
    IF current_char(input, pos) = Some("&")
    THEN LET r == parse_primary_expression(input, pos + 1)
         IN IF ~r.ok THEN r ELSE AndLoop(input, And(left, r.expr), r.pos)
    ELSE ParseOk(left, pos)

\* BooleanParser::parse_and_expression from position pos
parse_and_expression(input, pos) ==
    LET l == parse_primary_expression(input, pos)
    IN IF ~l.ok THEN l ELSE AndLoop(input, l.expr, l.pos)

\* `while self.current_char() == Some('|') { ... }` of parse_or_expression
RECURSIVE OrLoop(_, _, _)
OrLoop(input, left, pos) ==
    IF current_char(input, pos) = Some("|")
    THEN LET r == parse_and_expression(input, pos + 1)
         IN IF ~r.ok THEN r ELSE OrLoop(input, Or(left, r.expr), r.pos)
    ELSE ParseOk(left, pos)

\* BooleanParser::parse_or_expression from position pos
parse_or_expression(input, pos) ==
    LET l == parse_and_expression(input, pos)
    IN IF ~l.ok THEN l ELSE OrLoop(input, l.expr, l.pos)

\* Result<BooleanExpr, String>
ExprOk(e) == [ok |-> TRUE, expr |-> e]

\* parse_boolean_expression: the position reached is dropped
parse_boolean_expression(input) ==
    LET r == parse_or_expression(input, 0)
    IN IF r.ok THEN ExprOk(r.expr) ELSE r

\* ------------------------------------------------------------ regex_utils
\* str::contains(ch)
contains(pattern, ch) == \E i \in DOMAIN pattern : pattern[i] = ch

\* mutant of has_complex_boolean_ops: a single kind of operator is enough
has_complex_boolean_ops_AnyOperator(pattern) ==
    \/ contains(pattern, "(")
    \/ contains(pattern, ")")
    \/ contains(pattern, "&")
    \/ contains(pattern, "|")

has_complex_boolean_ops(pattern) ==
    \/ contains(pattern, "(")
    \/ contains(pattern, ")")
    \/ (contains(pattern, "&") /\ contains(pattern, "|"))

\* mutant of SplitLoop: an escaped separator splits too
RECURSIVE SplitLoop_SplitsEscaped(_, _, _, _, _, _)
SplitLoop_SplitsEscaped(input, sep, pos, parts, cur, escaped) ==
    IF pos >= Len(input) THEN Append(parts, cur)
    ELSE LET ch == input[pos + 1]
         IN IF ch = sep
            THEN SplitLoop_SplitsEscaped(input, sep, pos + 1, Append(parts, cur), <<>>, FALSE)
            ELSE SplitLoop_SplitsEscaped(input, sep, pos + 1, parts, Append(cur, ch), FALSE)

\* the loop of split_unescaped over input.chars(), from position pos
RECURSIVE SplitLoop(_, _, _, _, _, _)
SplitLoop(input, sep, pos, parts, cur, escaped) ==
    IF pos >= Len(input) THEN Append(parts, cur)
    ELSE LET ch == input[pos + 1]
         IN IF escaped
            THEN SplitLoop(input, sep, pos + 1, parts, Append(cur, ch), FALSE)
            ELSE IF ch = "\\"
            THEN SplitLoop(input, sep, pos + 1, parts, Append(cur, ch), TRUE)
            ELSE IF ch = sep
            THEN SplitLoop(input, sep, pos + 1, Append(parts, cur), <<>>, FALSE)
            ELSE SplitLoop(input, sep, pos + 1, parts, Append(cur, ch), FALSE)

split_unescaped(input, sep) == SplitLoop(input, sep, 0, <<>>, <<>>, FALSE)

\* `.map_err(|e| format!("Boolean expression parse error: {}", e))?` and
\* Ok(Some(..)) of parse_boolean_if_complex, on the parser's result r
ComplexResult(r) ==
    IF r.ok THEN [ok |-> TRUE, val |-> Some(r.expr)]
    ELSE [ok |-> FALSE, err |-> <<"Boolean expression parse error: ", r.err>>]

\* parse_boolean_if_complex on the joined string of a non-empty pattern
\* list: Ok(Some(expr)), Ok(None) or the parse error. Compiling the patterns
\* is the regex engine's work and is left out.
parse_boolean_if_complex(joined) ==
    IF has_complex_boolean_ops(joined)
    THEN ComplexResult(parse_boolean_expression(joined))
    ELSE [ok |-> TRUE, val |-> None]

\* build_and_matchers: the patterns of the AND parts, or None
build_and_matchers(joined) ==
    IF ~contains(joined, "&") THEN None ELSE Some(split_unescaped(joined, "&"))

\* the matcher the loop of run_on_reader decides is_match with: the boolean
\* tree if there is one, else the AND parts if there are any, else the regex
\* of the whole string; or the parse error run_on_reader returns
MatcherFor(boolean_expr, and_matchers, joined) ==
    IF ~boolean_expr.ok THEN boolean_expr
    ELSE IF boolean_expr.val # None
    THEN [ok |-> TRUE, kind |-> "boolean", expr |-> boolean_expr.val[1]]
    ELSE IF and_matchers # None
    THEN [ok |-> TRUE, kind |-> "and", parts |-> and_matchers[1]]
    ELSE [ok |-> TRUE, kind |-> "regex", pat |-> joined]

\* run_on_reader from parse_boolean_if_complex to the choice of the matcher
SelectedMatcher(joined) ==
    MatcherFor(parse_boolean_if_complex(joined), build_and_matchers(joined), joined)

\* ------------------------------------------------------- compiled matchers
\* slice::join(sep) of a list of strings
RECURSIVE join(_, _)
join(parts, sep) ==
    IF parts = <<>> THEN <<>>
    ELSE IF Len(parts) = 1 THEN parts[1]
    ELSE parts[1] \o sep \o join(Tail(parts), sep)

\* The source text of a compiled Regex. pat: the pattern; word: it was wrapped
\* as \b(?:pat)\b; line: it was then wrapped as ^(?:...)$.
Regex(pat, word, line) == [pat |-> pat, word |-> word, line |-> line]

\* The regex engine on patterns without escapes and groups: a pattern is the
\* alternation of the literals between its '|'.
Alternatives(pat) ==
    LET parts == split_unescaped(pat, "|")
    IN { parts[k] : k \in DOMAIN parts }

\* \w of the engine, for the characters of the lines
WordChar(ch) == ch \in {"a", "b", "c"}

\* \b holds between text[i] and text[i + 1] (i = 0: the start; i = Len: the end)
WordBoundary(text, i) ==
    LET before == i >= 1 /\ WordChar(text[i])
        after == i < Len(text) /\ WordChar(text[i + 1])
    IN before # after

\* the literal lit occurs in text after its first i characters
OccursAt(lit, text, i) ==
    /\ i + Len(lit) <= Len(text)
    /\ \A k \in 1..Len(lit) : text[i + k] = lit[k]

\* Regex::is_match(text), for a text of one line
is_match(re, text) ==
    \E lit \in Alternatives(re.pat) :
        \E i \in 0..Len(text) :
            /\ OccursAt(lit, text, i)
            /\ re.word => WordBoundary(text, i) /\ WordBoundary(text, i + Len(lit))
            /\ re.line => i = 0 /\ i + Len(lit) = Len(text)

\* BooleanExpr::get_patterns
RECURSIVE get_patterns(_)
get_patterns(expr) ==
    IF expr.op = "Pattern" THEN {expr.pattern}
    ELSE get_patterns(expr.left) \cup get_patterns(expr.right)

\* build_pattern_regexes: a map from every pattern of the tree to its regex,
\* wrapped for word and then for line
build_pattern_regexes(expr, c) ==
    [p \in get_patterns(expr) |-> Regex(p, c.word, c.line)]

RECURSIVE matches(_, _, _)

\* mutant of matches: the right operand of an And is not evaluated
matches_AndIgnoresRight(expr, line, regexes) ==
    IF expr.op = "Pattern"
    THEN IF expr.pattern \in DOMAIN regexes
         THEN is_match(regexes[expr.pattern], line)
         ELSE FALSE
    ELSE IF expr.op = "And"
    THEN matches(expr.left, line, regexes)
    ELSE IF matches(expr.left, line, regexes) THEN TRUE
         ELSE matches(expr.right, line, regexes)

\* BooleanExpr::matches: && and || evaluate the right operand only when the
\* left one does not decide
matches(expr, line, regexes) ==
    IF expr.op = "Pattern"
    THEN IF expr.pattern \in DOMAIN regexes
         THEN is_match(regexes[expr.pattern], line)
         ELSE FALSE
    ELSE IF expr.op = "And"
    THEN IF matches(expr.left, line, regexes)
         THEN matches(expr.right, line, regexes)
         ELSE FALSE
    ELSE IF matches(expr.left, line, regexes) THEN TRUE
         ELSE matches(expr.right, line, regexes)

\* build_regex: the regex of the joined string, or of the alternation of its
\* AND parts, wrapped for word and then for line
build_regex(c) ==
    LET joined == join(c.patterns, <<>>)
    IN Regex(IF contains(joined, "&")
             THEN join(split_unescaped(joined, "&"), <<"|">>)
             ELSE joined,
             c.word, c.line)

\* mutant of AndRegexes: the AND parts are wrapped for line as well
AndRegexes_LineWrapped(parts, c) ==
    [k \in DOMAIN parts |-> Regex(parts[k], c.word, c.line)]

\* the loop of build_and_matchers: every part is wrapped for word, none for line
AndRegexes(parts, c) ==
    [k \in DOMAIN parts |-> Regex(parts[k], c.word, FALSE)]

\* the nesting depth of the groups of pat after its first i characters, or -1
\* once a ')' has closed a group that was not open
RECURSIVE GroupDepth(_, _)
GroupDepth(pat, i) ==
    IF i = 0 THEN 0
    ELSE LET d == GroupDepth(pat, i - 1)
         IN IF d < 0 THEN d
            ELSE IF pat[i] = "(" THEN d + 1
            ELSE IF pat[i] = ")" THEN d - 1
            ELSE d

\* RegexBuilder::build succeeds: of the patterns without escapes the engine
\* rejects those whose groups are not closed or not opened
Builds(re) == GroupDepth(re.pat, Len(re.pat)) = 0

\* the matcher m with its compiled regexes: the map of the boolean tree, the
\* regexes of the AND parts, and the display regex re
Compile(m, c) ==
    IF ~m.ok THEN m
    ELSE IF ~Builds(build_regex(c)) THEN [ok |-> FALSE, err |-> <<"regex parse error">>]
    ELSE IF m.kind = "boolean"
    THEN [ok |-> TRUE, kind |-> "boolean", expr |-> m.expr,
          regexes |-> build_pattern_regexes(m.expr, c), re |-> build_regex(c)]
    ELSE IF m.kind = "and"
    THEN [ok |-> TRUE, kind |-> "and", regs |-> AndRegexes(m.parts, c),
          re |-> build_regex(c)]
    ELSE [ok |-> TRUE, kind |-> "regex", re |-> build_regex(c)]

\* run_on_reader up to read_to_lines, on a list of patterns
CompiledMatcher(c) ==
    IF c.patterns = <<>> THEN [ok |-> FALSE, err |-> <<"no pattern provided">>]
    ELSE Compile(SelectedMatcher(join(c.patterns, <<>>)), c)

\* `let is_match = re.is_match(&line)` of process_line of follow mode, with the
\* regex of build_regex: Some(decision), or None for a regex with groups, on
\* which the engine is not modelled
FollowIsMatch(re, text) ==
    IF contains(re.pat, "(") \/ contains(re.pat, ")") THEN None
    ELSE Some(is_match(re, text))

\* `let is_match = ...` of the loop of run_on_reader, with the matcher m
LineIsMatch(m, text) ==
    IF m.kind = "boolean" THEN matches(m.expr, text, m.regexes)
    ELSE IF m.kind = "and" THEN \A k \in DOMAIN m.regs : is_match(m.regs[k], text)
    ELSE is_match(m.re, text)

\* --------------------------------------------------------------- sources
\* A file given to run. stdin: the path is "-"; st: "ok", "noopen" (File::open
\* fails), "noread" (it opens, reading fails: a directory) or "badutf8" (its
\* bytes are read, its lines are not valid text); nul: the offset of its first
\* NUL byte, if any; lines: its text.
File(stdin, st, nul, ls) == [stdin |-> stdin, st |-> st, nul |-> nul, lines |-> ls]

\* mutant of is_binary_path: the last byte of the prefix is not looked at
is_binary_path_ShortPrefix(f) ==
    ~f.stdin /\ f.st \in {"ok", "badutf8"} /\ f.nul # None /\ f.nul[1] < BinaryPrefix - 1

\* is_binary_path: "-" is never binary, nor is a file that cannot be opened or
\* read; otherwise a NUL among the first BinaryPrefix bytes decides
is_binary_path(f) ==
    IF f.stdin THEN FALSE
    ELSE IF f.st = "noopen" THEN FALSE
    ELSE IF f.st = "noread" THEN FALSE
    ELSE f.nul # None /\ f.nul[1] < BinaryPrefix

\* open_input(Some(path)): stdin for "-", else File::open
OpenFails(f) == ~f.stdin /\ f.st = "noopen"

\* the reader open_input gives for a source that opens
ReaderOf(f) == Reader(f.st \in {"noread", "badutf8"}, f.lines)

\* ------------------------------------------------------------ timestamps
\* Ord of a timestamp tuple (y, m, d, h, min, s, nanos): -1, 0 or 1
RECURSIVE TupleCmp(_, _)
TupleCmp(a, b) ==
    IF a = <<>> THEN 0
    ELSE IF Head(a) < Head(b) THEN -1
    ELSE IF Head(a) > Head(b) THEN 1
    ELSE TupleCmp(Tail(a), Tail(b))

\* parse_ts_from_formatted_line: the timestamp in the text after the first
\* ':' of "<n>:<content>"; markers that split its text leave none to find
parse_ts_from_formatted_line(entry) ==
    IF entry.kind # "line" THEN None
    ELSE IF entry.text.hl /\ entry.text.cut THEN None
    ELSE IF entry.text.ts = NoTs THEN None
    ELSE Some(entry.text.ts)

\* ------------------------------------------------------------ aggregation
\* mutant of IdxLess: the results are sorted by decreasing index
IdxLess_Reversed(a, b) == a.idx > b.idx

\* the comparator of results.sort_by_key(|(i, _)| *i)
IdxLess(a, b) == a.idx < b.idx

RECURSIVE InsertByIdx(_, _)
InsertByIdx(x, sorted) ==
    IF sorted = <<>> THEN <<x>>
    ELSE IF IdxLess(x, Head(sorted)) THEN <<x>> \o sorted
    ELSE <<Head(sorted)>> \o InsertByIdx(x, Tail(sorted))

\* mutant of SortByIdx: the results stay in completion order
SortByIdx_CompletionOrder(seq) == seq

\* results.sort_by_key(|(i, _)| *i): a stable sort by file index
RECURSIVE SortByIdx(_)
SortByIdx(seq) ==
    IF seq = <<>> THEN <<>>
    ELSE InsertByIdx(seq[Len(seq)], SortByIdx(SubSeq(seq, 1, Len(seq) - 1)))

\* mutant of ChronoLess: the timestamp is not compared
ChronoLess_IgnoresTimestamp(a, b) ==
    IF a.file_idx # b.file_idx THEN a.file_idx < b.file_idx ELSE a.line_idx < b.line_idx

\* mutant of ChronoLess: equal timestamps of one file compare by descending
\* line index
ChronoLess_LineIdxReversed(a, b) ==
    LET ord == TupleCmp(a.ts[1], b.ts[1])
    IN IF ord # 0 THEN ord < 0
       ELSE IF a.file_idx # b.file_idx THEN a.file_idx < b.file_idx
       ELSE a.line_idx > b.line_idx

\* the comparator of merge_chronologically: timestamp, file index, line index
ChronoLess(a, b) ==
    LET ord == TupleCmp(a.ts[1], b.ts[1])
    IN IF ord # 0 THEN ord < 0
       ELSE IF a.file_idx # b.file_idx THEN a.file_idx < b.file_idx
       ELSE a.line_idx < b.line_idx

RECURSIVE InsertChrono(_, _)
InsertChrono(x, sorted) ==
    IF sorted = <<>> THEN <<x>>
    ELSE IF ChronoLess(x, Head(sorted)) THEN <<x>> \o sorted
    ELSE <<Head(sorted)>> \o InsertChrono(x, Tail(sorted))

\* all_lines.sort_by(...) of merge_chronologically
RECURSIVE SortChrono(_)
SortChrono(seq) ==
    IF seq = <<>> THEN <<>>
    ELSE InsertChrono(seq[Len(seq)], SortChrono(SubSeq(seq, 1, Len(seq) - 1)))

\* one item of s.lines(): the line without its "\n" and without a "\r" before it
StrLine(entry) ==
    IF entry.kind = "line" THEN [entry EXCEPT !.text.cr = FALSE] ELSE entry

\* s.lines() of an output
StrLines(o) == [k \in DOMAIN o |-> StrLine(o[k])]

\* collect_all_lines: (ts, file_idx, line_idx, line) for every output line
RECURSIVE collect_all_lines(_)
collect_all_lines(outputs_per_file) ==
    IF outputs_per_file = <<>> THEN <<>>
    ELSE LET o == Head(outputs_per_file)
         IN [k \in 1..Len(o.output) |->
                [ts |-> parse_ts_from_formatted_line(o.output[k]),
                 file_idx |-> o.idx, line_idx |-> k - 1, line |-> StrLine(o.output[k])]]
            \o collect_all_lines(Tail(outputs_per_file))

\* merge_chronologically: None unless every line has a timestamp
merge_chronologically(all_lines) ==
    IF all_lines = <<>> \/ \E k \in DOMAIN all_lines : all_lines[k].ts = None
    THEN None
    ELSE LET sorted == SortChrono(all_lines)
         IN Some([k \in DOMAIN sorted |-> sorted[k].line])

\* concat_outputs: the outputs in the order given
RECURSIVE concat_outputs(_)
concat_outputs(outputs_per_file) ==
    IF outputs_per_file = <<>> THEN <<>>
    ELSE Head(outputs_per_file).output \o concat_outputs(Tail(outputs_per_file))

\* mutant of CollectErrs: only the first error is kept
RECURSIVE CollectErrs_FirstOnly(_)
CollectErrs_FirstOnly(rs) ==
    IF rs = <<>> THEN <<>>
    ELSE IF Head(rs).res.ok THEN CollectErrs_FirstOnly(Tail(rs))
    ELSE Head(rs).res.errs

\* the error messages of the failed results, in the order given
RECURSIVE CollectErrs(_)
CollectErrs(rs) ==
    IF rs = <<>> THEN <<>>
    ELSE (IF Head(rs).res.ok THEN <<>> ELSE Head(rs).res.errs) \o CollectErrs(Tail(rs))

\* the (file_idx, output) pairs of the results that succeeded
RECURSIVE OutputsPerFile(_)
OutputsPerFile(rs) ==
    IF rs = <<>> THEN <<>>
    ELSE (IF Head(rs).res.ok
          THEN <<[idx |-> Head(rs).idx, output |-> Head(rs).res.output]>>
          ELSE <<>>) \o OutputsPerFile(Tail(rs))

\* mutant of AnyMatchFound: only the last result decides
AnyMatchFound_LastOnly(rs) ==
    rs # <<>> /\ rs[Len(rs)].res.ok /\ rs[Len(rs)].res.status = MatchFound

\* matched_any of run: some result that succeeded has status MatchFound
AnyMatchFound(rs) ==
    \E k \in DOMAIN rs : rs[k].res.ok /\ rs[k].res.status = MatchFound

\* one parallel task of run: open_input(name).and_then(run_on_reader)
Worker(c, f, idx) ==
    IF OpenFails(f) THEN Err(<<"open error">>)
    ELSE run_on_reader(c, ReaderOf(f), Some(idx))

\* run after the parallel section: sort, collect, aggregate
Aggregate(c, rs) ==
    LET results_sorted == SortByIdx(rs)
        errs == CollectErrs(results_sorted)
        matched_any == AnyMatchFound(results_sorted)
        status == IF matched_any THEN MatchFound ELSE NoMatch
        outputs_per_file == OutputsPerFile(results_sorted)
        merged == merge_chronologically(collect_all_lines(outputs_per_file))
    IN IF errs # <<>> THEN Err(errs)
       ELSE IF c.quiet THEN RunResult(<<>>, status)
       ELSE IF c.count THEN RunResult(concat_outputs(outputs_per_file), status)
       ELSE IF merged # None THEN RunResult(merged[1], status)
       ELSE RunResult(concat_outputs(outputs_per_file), status)

\* the enumerate() indices (from 0) of the files that are not binary
Kept(fs) == { i \in 0..(Len(fs) - 1) : ~is_binary_path(fs[i + 1]) }

\* mutant of RunSingle: the name is kept in count mode
RunSingle_KeepsName(c, f, idx) ==
    IF OpenFails(f) THEN Err(<<"open error">>)
    ELSE run_on_reader(c, ReaderOf(f), Some(idx))

\* run with a single remaining file: the name is dropped in count mode
RunSingle(c, f, idx) ==
    IF OpenFails(f) THEN Err(<<"open error">>)
    ELSE IF c.count THEN run_on_reader(c, ReaderOf(f), None)
    ELSE run_on_reader(c, ReaderOf(f), Some(idx))

\* ------------------------------------------------------------------ follow
\* mutant of validate_follow_inputs: stdin is accepted
validate_follow_inputs_AllowsStdin(c, fs) ==
    IF ~c.follow THEN Some("follow mode not enabled")
    ELSE IF Len(fs) # 1 THEN Some("follow mode supports exactly one regular file")
    ELSE IF is_binary_path(fs[1]) THEN Some("cannot follow binary file")
    ELSE None

\* validate_follow_inputs on the expanded inputs fs: the error, if any
validate_follow_inputs(c, fs) ==
    IF ~c.follow THEN Some("follow mode not enabled")
    ELSE IF Len(fs) # 1 \/ fs[1].stdin
    THEN Some("follow mode supports exactly one regular file")
    ELSE IF is_binary_path(fs[1]) THEN Some("cannot follow binary file")
    ELSE None

\* A byte of the target file. ch: its character; id: the number of the write
\* that put it there (no two bytes share one).
Byte(ch, id) == [ch |-> ch, id |-> id]

\* the ids of the bytes of a file content
IdsOf(bytes) == { bytes[k].id : k \in DOMAIN bytes }

\* reader.read_line until Ok(0), from offset i of the content: each line read
\* with its bytes (the terminator included if there is one) and its offset
RECURSIVE read_lines(_, _, _, _)
read_lines(bytes, i, start, cur) ==
    IF i >= Len(bytes)
    THEN IF cur = <<>> THEN <<>> ELSE <<[start |-> start, bytes |-> cur]>>
    ELSE IF bytes[i + 1].ch = "\n"
    THEN <<[start |-> start, bytes |-> Append(cur, bytes[i + 1])]>>
             \o read_lines(bytes, i + 1, i + 1, <<>>)
    ELSE read_lines(bytes, i + 1, start, Append(cur, bytes[i + 1]))

\* buf.trim_end_matches(['\n', '\r']): the characters of the line
RECURSIVE trim_end(_)
trim_end(lb) ==
    IF lb # <<>> /\ lb[Len(lb)].ch = "\n" THEN trim_end(SubSeq(lb, 1, Len(lb) - 1))
    ELSE [k \in DOMAIN lb |-> lb[k].ch]

\* The line of a read: its text, the ids of its bytes, whether it ended in a
\* terminator (term) and the character before its first byte in the file
\* (prev; None at offset 0); m is re.is_match on the text.
FollowLineOf(re, bytes, l) ==
    Line([text |-> trim_end(l.bytes),
          ids |-> IdsOf(l.bytes),
          term |-> l.bytes[Len(l.bytes)].ch = "\n",
          prev |-> IF l.start = 0 THEN None ELSE Some(bytes[l.start].ch)],
         is_match(re, trim_end(l.bytes)), NoTs, FALSE)

\* mutant of get_initial_file_position: the file is read from its start
get_initial_file_position_FromStart(d) ==
    IF d.st = "ok" THEN Some(0) ELSE None

\* one iteration of the loop of get_initial_file_position on the file d:
\* Some(md.len()) if it opens, None if the open is to be tried again
get_initial_file_position(d) ==
    IF d.st = "ok" THEN Some(Len(d.bytes)) ELSE None

\* mutant of reset_position: a file that shrank is read again from its start
reset_position_Rewinds(meta_len, p) == IF meta_len < p THEN 0 ELSE p

\* `if meta_len < *pos { *pos = meta_len; }` of follow_file_changes
reset_position(meta_len, p) == IF meta_len < p THEN meta_len ELSE p

\* mutant of BatchEngine: the engine of the batch before is used again
BatchEngine_Kept(c, last) == [last EXCEPT !.before_n = c.before, !.after_n = c.after]

\* `let mut engine = FollowEngine::new(before_n, after_n)` of every batch
BatchEngine(c, last) == FollowEngineNew(c.before, c.after)

\* the loop of process_new_file_content over the lines read
RECURSIVE BatchLoop(_, _, _, _)
BatchLoop(c, e, ls, out) ==
    IF ls = <<>> THEN [engine |-> e, printed |-> out]
    ELSE LET p == process_line(c, e, Head(ls))
         IN BatchLoop(c, p.engine, Tail(ls), out \o p.printed)

\* process_new_file_content from the seek to the end of the loop: the lines
\* read after offset p, what is printed and the engine at the end
process_new_file_content(c, re, bytes, p, last) ==
    LET ls == read_lines(bytes, p, p, <<>>)
        recs == [k \in DOMAIN ls |-> FollowLineOf(re, bytes, ls[k])]
        b == BatchLoop(c, BatchEngine(c, last), recs, <<>>)
    IN [read |-> recs, printed |-> b.printed, engine |-> b.engine]

\* ------------------------------------------- single-source specification
\* the configurations of a call: every flag combination with a valid pattern,
\* and the three kinds of pattern error with the default flags
ReaderConfigs ==
    { Config(PatOk, i, c, q, l, col, b, a) :
        i \in BOOLEAN, c \in BOOLEAN, q \in BOOLEAN, l \in BOOLEAN,
        col \in BOOLEAN, b \in 0..MaxCtx, a \in 0..MaxCtx }
    \cup { Config(p, FALSE, FALSE, FALSE, FALSE, TRUE, 0, 0) :
              p \in {PatEmpty, PatParse, PatCompile} }

\* the sources: up to MaxLines lines of different text, any of them a match
ReaderSources ==
    UNION { { [i \in 1..n |-> Line(i, ms[i], NoTs, FALSE)] : ms \in [1..n -> BOOLEAN] } :
              n \in 0..MaxLines }

\* no pattern string is being handled
ParseIdle ==
    /\ raw = <<>>
    /\ ppc = "idle"
    /\ parsed = None
    /\ matcher = None

\* follow has not been called
FollowIdle ==
    /\ disk = [st |-> "ok", bytes |-> <<>>]
    /\ fpc = "idle"
    /\ fret = None
    /\ fpos = 0
    /\ flog = <<>>
    /\ nb = 0
    /\ nw = 0

\* no line is being matched
MatchIdle ==
    /\ mline = <<>>
    /\ verdict = None

RunIdle ==
    /\ files = <<>>
    /\ phase = "idle"
    /\ pending = {}
    /\ results = <<>>
    /\ runResult = None

InitReader ==
    /\ cfg \in ReaderConfigs
    /\ lines \in ReaderSources
    /\ rd = ReaderInit
    /\ rpc = "start"
    /\ result = None
    /\ engine = FollowEngineNew(cfg.before, cfg.after)
    /\ fidx = 0
    /\ fout = <<>>
    /\ RunIdle
    /\ ParseIdle
    /\ MatchIdle
    /\ FollowIdle

\* run_on_reader up to the loop: the pattern checks and read_to_lines
ReaderStart ==
    /\ rpc = "start"
    /\ IF PatternError(cfg) # None
       THEN /\ result' = Err(PatternError(cfg))
            /\ rpc' = "done"
       ELSE /\ result' = result
            /\ rpc' = "loop"
    /\ UNCHANGED <<cfg, lines, rd, engine, fidx, fout, runVars, parseVars, matchVars, followVars>>

\* one iteration of the loop of run_on_reader
ReaderLine ==
    /\ rpc = "loop"
    /\ rd.idx < Len(lines)
    /\ rd' = LoopBody(cfg, rd, None, lines[rd.idx + 1])
    /\ UNCHANGED <<cfg, lines, rpc, result, engine, fidx, fout, runVars, parseVars, matchVars, followVars>>

\* the end of run_on_reader (name = None)
ReaderReturn ==
    /\ rpc = "loop"
    /\ rd.idx = Len(lines)
    /\ result' = ReaderFinish(cfg, rd, None)
    /\ rpc' = "done"
    /\ UNCHANGED <<cfg, lines, rd, engine, fidx, fout, runVars, parseVars, matchVars, followVars>>

\* process_line of follow mode on the next line of the same source
FollowLine ==
    /\ cfg.patterns = PatOk
    /\ fidx < Len(lines)
    /\ LET p == process_line(cfg, engine, lines[fidx + 1])
       IN /\ engine' = p.engine
          /\ fout' = fout \o p.printed
    /\ fidx' = fidx + 1
    /\ UNCHANGED <<cfg, lines, rd, rpc, result, runVars, parseVars, matchVars, followVars>>

NextReader == ReaderStart \/ ReaderLine \/ ReaderReturn \/ FollowLine

SpecReader == InitReader /\ [][NextReader]_vars

\* --------------------------------------------- multi-source specification
\* timestamps (y, m, d, h, min, s, nanos) written in lines
TsEarly == <<2024, 1, 2, 10, 0, 0, 0>>
TsLate == <<2024, 1, 10, 9, 30, 0, 500000000>>

\* the lines of the files: a match with an early, a late or no timestamp, a
\* line that is no match, and a match whose span splits the timestamp's text
LineEarly == Line("early", TRUE, TsEarly, FALSE)
LineLate == Line("late", TRUE, TsLate, FALSE)
LinePlain == Line("plain", TRUE, NoTs, FALSE)
LineOther == Line("other", FALSE, NoTs, FALSE)
LineCut == Line("cut", TRUE, TsEarly, TRUE)
LineCr == [Line("cr", TRUE, TsLate, FALSE) EXCEPT !.cr = TRUE]

\* the files: text files, files that fail, and files with a NUL byte
TextFiles ==
    { File(FALSE, "ok", None, ls) :
        ls \in { <<>>, <<LineEarly>>, <<LineLate>>, <<LinePlain>>, <<LineOther>>,
                 <<LineCut>>, <<LineLate, LineEarly>>, <<LineOther, LineEarly>>,
                 <<LineCut, LineEarly>>, <<LineCr>> } }

FailingFiles ==
    { File(FALSE, st, None, <<>>) : st \in {"noopen", "noread", "badutf8"} }

NulFiles ==
    { File(FALSE, "ok", Some(BinaryPrefix - 1), <<LinePlain>>),
      File(FALSE, "ok", Some(BinaryPrefix), <<LinePlain>>),
      File(FALSE, "badutf8", Some(0), <<>>),
      File(TRUE, "ok", Some(0), <<LinePlain>>) }

FileKinds == TextFiles \cup FailingFiles \cup NulFiles

\* the configurations of a run: every flag combination with a valid pattern,
\* without context or with one line of it, and the pattern errors
RunConfigs ==
    { Config(PatOk, i, c, q, FALSE, col, n, n) :
        i \in BOOLEAN, c \in BOOLEAN, q \in BOOLEAN, col \in BOOLEAN, n \in {0, 1} }
    \cup { Config(p, FALSE, c, q, FALSE, TRUE, 0, 0) :
              p \in {PatEmpty, PatParse, PatCompile}, c \in BOOLEAN, q \in BOOLEAN }

ReaderIdle ==
    /\ lines = <<>>
    /\ rd = ReaderInit
    /\ rpc = "idle"
    /\ result = None
    /\ engine = FollowEngineNew(0, 0)
    /\ fidx = 0
    /\ fout = <<>>

InitRun ==
    /\ cfg \in RunConfigs
    /\ files \in UNION { [1..n -> FileKinds] : n \in 0..MaxFiles }
    /\ phase = "start"
    /\ pending = {}
    /\ results = <<>>
    /\ runResult = None
    /\ ReaderIdle
    /\ ParseIdle
    /\ MatchIdle
    /\ FollowIdle

\* run up to the parallel section: stdin alone, the binary filter, no file
\* left, one file left, or the tasks are spawned
RunStart ==
    /\ phase = "start"
    /\ IF Len(files) = 1 /\ files[1].stdin
       THEN /\ runResult' = run_on_reader(cfg, ReaderOf(files[1]), None)
            /\ phase' = "done"
            /\ pending' = pending
       ELSE IF Kept(files) = {}
       THEN /\ runResult' = RunResult(<<>>, NoMatch)
            /\ phase' = "done"
            /\ pending' = pending
       ELSE IF Cardinality(Kept(files)) = 1
       THEN /\ \E i \in Kept(files) : runResult' = RunSingle(cfg, files[i + 1], i)
            /\ phase' = "done"
            /\ pending' = pending
       ELSE /\ runResult' = runResult
            /\ phase' = "parallel"
            /\ pending' = Kept(files)
    /\ UNCHANGED <<cfg, files, results, readerVars, parseVars, matchVars, followVars>>

\* a parallel task completes, in any order
WorkerDone(i) ==
    /\ phase = "parallel"
    /\ i \in pending
    /\ pending' = pending \ {i}
    /\ results' = Append(results, [idx |-> i, res |-> Worker(cfg, files[i + 1], i)])
    /\ UNCHANGED <<cfg, files, phase, runResult, readerVars, parseVars, matchVars, followVars>>

\* all tasks have completed: run sorts the results and aggregates
RunAggregate ==
    /\ phase = "parallel"
    /\ pending = {}
    /\ runResult' = Aggregate(cfg, results)
    /\ phase' = "done"
    /\ UNCHANGED <<cfg, files, pending, results, readerVars, parseVars, matchVars, followVars>>

NextRun == RunStart \/ (\E i \in 0..MaxFiles : WorkerDone(i)) \/ RunAggregate

SpecRun == InitRun /\ [][NextRun]_vars

Spec == SpecRun

\* ------------------------------------------------- pattern specification
\* longest pattern string of which every spelling is tried
MaxExpr == 5

\* the characters of the pattern strings
Letters == {"a", "b"}
Operators == {"&", "|"}
Parens == {"(", ")"}
Chars == Letters \cup Operators \cup Parens \cup {" ", "\\"}

\* longer expressions over three literals
ExampleExprs ==
    { <<"a", "|", "b", "&", "c">>,
      <<"a", "&", "b", "|", "c">>,
      <<"a", "&", "b", "&", "c">>,
      <<"a", "&", "(", "b", "|", "c", ")">>,
      <<"(", "a", "|", "b", ")", "&", "c">>,
      <<"(", " ", "a", " ", "|", " ", "b", " ", ")">>,
      <<"(", "a", "&", "(", "b", "|", "c", ")">> }

\* the pattern strings: every string of up to MaxExpr characters, and the
\* longer expressions
PatternStrings ==
    UNION { [1..n -> Chars] : n \in 0..MaxExpr } \cup ExampleExprs

InitParse ==
    /\ raw \in PatternStrings
    /\ ppc = "start"
    /\ parsed = None
    /\ matcher = None
    /\ cfg = Config(PatOk, FALSE, FALSE, FALSE, FALSE, FALSE, 0, 0)
    /\ ReaderIdle
    /\ RunIdle
    /\ MatchIdle
    /\ FollowIdle

\* parse_boolean_expression(raw)
ParseExpression ==
    /\ ppc = "start"
    /\ parsed' = parse_boolean_expression(raw)
    /\ ppc' = "parsed"
    /\ UNCHANGED <<cfg, raw, matcher, readerVars, runVars, matchVars, followVars>>

\* run_on_reader up to the loop on the pattern string raw: the boolean
\* tree, the AND parts or the single regex is chosen, once
SelectMatcher ==
    /\ ppc = "start"
    /\ matcher' = SelectedMatcher(raw)
    /\ ppc' = "selected"
    /\ UNCHANGED <<cfg, raw, parsed, readerVars, runVars, matchVars, followVars>>

NextParse == ParseExpression \/ SelectMatcher

SpecParse == InitParse /\ [][NextParse]_vars

\* ------------------------------------------------ matching specification
\* longest pattern string of which every spelling is tried
MaxPat == 3
\* longest line
MaxText == 3

\* Config with a list of pattern strings and the word flag
MatchConfig(patterns, word, line, invert) ==
    [word |-> word] @@ Config(patterns, invert, FALSE, FALSE, line, FALSE, 0, 0)

\* the pattern strings: every string of up to MaxPat of these characters,
\* and longer expressions with parentheses
MatchStrings ==
    UNION { [1..n -> {"a", "b", "&", "|", " "}] : n \in 0..MaxPat }
    \cup { <<"(", "a", "|", "b", ")", "&", "a">>,
           <<"a", "&", "(", "b", "|", "a", "b", ")">>,
           <<"(", "a", "&", "b", ")", "|", "b", "b">>,
           <<"a", "b", "&", "b", "&", "a">>,
           <<"a", " ", "b", "&", "b", " ", "a">>,
           <<"a", ")">> }

\* the pattern strings of the lists of two patterns
SeveralStrings == { <<"a">>, <<"b">>, <<"a", "b">>, <<"b", "&">>, <<"|", "b">> }

\* cfg.patterns: no pattern, one pattern, or two
PatternLists ==
    {<<>>} \cup { <<s>> : s \in MatchStrings }
    \cup { <<s, t>> : s \in SeveralStrings, t \in SeveralStrings }

MatchConfigs ==
    { MatchConfig(ps, w, l, i) :
        ps \in PatternLists, w \in BOOLEAN, l \in BOOLEAN, i \in BOOLEAN }

\* the lines: words of a and b, and blanks
MatchLines == UNION { [1..n -> {"a", "b", " "}] : n \in 0..MaxText }

InitMatch ==
    /\ cfg \in MatchConfigs
    /\ mline \in MatchLines
    /\ verdict = None
    /\ raw = <<>>
    /\ ppc = "start"
    /\ parsed = None
    /\ matcher = None
    /\ ReaderIdle
    /\ RunIdle
    /\ FollowIdle

\* run_on_reader up to the loop: the patterns are joined, the matcher is
\* chosen and its regexes are compiled, or the error is returned
MatchCompile ==
    /\ ppc = "start"
    /\ raw' = join(cfg.patterns, <<>>)
    /\ matcher' = CompiledMatcher(cfg)
    /\ ppc' = "compiled"
    /\ UNCHANGED <<cfg, parsed, readerVars, runVars, matchVars, followVars>>

\* the loop of run_on_reader on the line mline: is_match, then final_match;
\* and the decision process_line of follow mode takes on the same line
MatchLine ==
    /\ ppc = "compiled"
    /\ matcher.ok
    /\ LET m == LineIsMatch(matcher, mline)
       IN verdict' = Some([is_match |-> m,
                           final_match |-> FinalMatch(cfg, Line(mline, m, NoTs, FALSE)),
                           follow_match |-> FollowIsMatch(matcher.re, mline)])
    /\ ppc' = "matched"
    /\ UNCHANGED <<cfg, raw, parsed, matcher, mline, readerVars, runVars, followVars>>

NextMatch == MatchCompile \/ MatchLine

SpecMatch == InitMatch /\ [][NextMatch]_vars

\* -------------------------------------------------- follow specification
\* most changes of the target file: writes, truncations, removals
MaxWrites == 3
\* most entries of the log of follow
MaxEvents == 3

\* Config of a call of follow
FollowConfig(patterns, follow, before, after) ==
    [word |-> FALSE, follow |-> follow]
        @@ Config(patterns, FALSE, FALSE, FALSE, FALSE, FALSE, before, after)

\* a pattern that compiles and one the regex engine rejects
FollowConfigs ==
    { FollowConfig(ps, f, b, a) :
        ps \in { << <<"m">> >>, << <<"(">> >> }, f \in BOOLEAN,
        b \in {0, 1}, a \in {0, 1} }

\* the expanded inputs: none, a text file, stdin, a binary file, a file that
\* does not exist yet, two files
FollowInputs ==
    { <<>>,
      <<File(FALSE, "ok", None, <<>>)>>,
      <<File(TRUE, "ok", None, <<>>)>>,
      <<File(FALSE, "ok", Some(0), <<>>)>>,
      <<File(FALSE, "noopen", None, <<>>)>>,
      <<File(FALSE, "ok", None, <<>>), File(FALSE, "ok", None, <<>>)>> }

\* the pieces a writer appends: part of a line, its end, whole lines
Chunks == { <<"m">>, <<"\n">>, <<"m", "\n">>, <<"x", "\n">> }

\* the bytes of a piece written after n bytes
Written(chunk, n) == [k \in DOMAIN chunk |-> Byte(chunk[k], n + k)]

\* what the target file holds when follow is called
InitialContents == { <<>>, <<"x", "\n">>, <<"m", "\n", "x">> }

InitFollow ==
    /\ cfg \in FollowConfigs
    /\ files \in FollowInputs
    /\ \E content \in InitialContents :
          /\ disk = [st |-> IF Len(files) = 1 /\ files[1].st = "noopen"
                            THEN "missing" ELSE "ok",
                     bytes |-> IF Len(files) = 1 /\ files[1].st = "noopen"
                               THEN <<>> ELSE Written(content, 0)]
          /\ nb = Len(disk.bytes)
    /\ nw = 0
    /\ fpc = "start"
    /\ fret = None
    /\ fpos = 0
    /\ flog = <<>>
    /\ phase = "idle"
    /\ pending = {}
    /\ results = <<>>
    /\ runResult = None
    /\ ReaderIdle
    /\ ParseIdle
    /\ MatchIdle

\* follow up to get_initial_file_position: the inputs are validated and the
\* regex is built, or the error is returned
FollowStart ==
    /\ fpc = "start"
    /\ IF validate_follow_inputs(cfg, files) # None
       THEN /\ fret' = validate_follow_inputs(cfg, files)
            /\ fpc' = "returned"
       ELSE IF ~Builds(build_regex(cfg))
       THEN /\ fret' = Some("regex parse error")
            /\ fpc' = "returned"
       ELSE /\ fret' = fret
            /\ fpc' = "waiting"
    /\ UNCHANGED <<cfg, disk, fpos, flog, nb, nw, readerVars, runVars, parseVars, matchVars>>

\* one iteration of the loop of get_initial_file_position: the size of the
\* opened file is the offset, or the open is tried again
FollowWait ==
    /\ fpc = "waiting"
    /\ IF get_initial_file_position(disk) # None
       THEN /\ Len(flog) < MaxEvents
            /\ fpos' = get_initial_file_position(disk)[1]
            /\ fpc' = "poll"
            /\ flog' = Append(flog, [kind |-> "open", size |-> Len(disk.bytes),
                                     pos |-> fpos', present |-> IdsOf(disk.bytes)])
       ELSE UNCHANGED <<fpos, fpc, flog>>
    /\ UNCHANGED <<cfg, disk, fret, nb, nw, readerVars, runVars, parseVars, matchVars>>

\* one iteration of the loop of follow_file_changes up to the call of
\* process_new_file_content: fs::metadata, the reset of the offset when the
\* file shrank, and the decision to read
FollowStat ==
    /\ fpc = "poll"
    /\ IF disk.st = "missing" THEN UNCHANGED <<fpos, fpc, flog>>
       ELSE LET meta_len == Len(disk.bytes)
            IN IF meta_len < fpos
               THEN /\ Len(flog) < MaxEvents
                    /\ fpos' = reset_position(meta_len, fpos)
                    /\ fpc' = IF meta_len > fpos' THEN "read" ELSE fpc
                    /\ flog' = Append(flog, [kind |-> "shrink", size |-> meta_len,
                                             pos |-> fpos', present |-> IdsOf(disk.bytes)])
               ELSE /\ fpos' = fpos
                    /\ fpc' = IF meta_len > fpos THEN "read" ELSE fpc
                    /\ flog' = flog
    /\ UNCHANGED <<cfg, disk, fret, nb, nw, readerVars, runVars, parseVars, matchVars>>

\* process_new_file_content up to the end of its loop: the file is opened and
\* read from the offset to its end and the lines are printed; or the open
\* fails and the poll is tried again
FollowRead ==
    /\ fpc = "read"
    /\ Len(flog) < MaxEvents
    /\ IF disk.st # "ok"
       THEN /\ flog' = Append(flog, [kind |-> "error", at |-> "open"])
            /\ fpc' = "poll"
            /\ engine' = engine
       ELSE LET b == process_new_file_content(cfg, build_regex(cfg), disk.bytes, fpos, engine)
            IN /\ flog' = Append(flog, [kind |-> "batch", pos |-> fpos, read |-> b.read,
                                        printed |-> b.printed])
               /\ engine' = b.engine
               /\ fpc' = "restat"
    /\ UNCHANGED <<cfg, disk, fret, fpos, nb, nw, lines, rd, rpc, result, fidx, fout,
                   runVars, parseVars, matchVars>>

\* the end of process_new_file_content: the size of the file is the new
\* offset; or fs::metadata fails, the offset stays and the poll is tried again
FollowRestat ==
    /\ fpc = "restat"
    /\ IF disk.st = "missing"
       THEN /\ Len(flog) < MaxEvents
            /\ flog' = Append(flog, [kind |-> "error", at |-> "metadata"])
            /\ fpos' = fpos
       ELSE /\ fpos' = Len(disk.bytes)
            /\ flog' = flog
    /\ fpc' = "poll"
    /\ UNCHANGED <<cfg, disk, fret, nb, nw, readerVars, runVars, parseVars, matchVars>>

\* follow is running
Following == fpc \in {"waiting", "poll", "read", "restat"}

\* a writer appends a piece to the target file
WriterAppend ==
    /\ Following
    /\ disk.st # "missing"
    /\ nw < MaxWrites
    /\ \E chunk \in Chunks :
          /\ disk' = [disk EXCEPT !.bytes = @ \o Written(chunk, nb)]
          /\ nb' = nb + Len(chunk)
    /\ nw' = nw + 1
    /\ UNCHANGED <<cfg, fpc, fret, fpos, flog, readerVars, runVars, parseVars, matchVars>>

\* the target file is truncated to a shorter length
WriterTruncate ==
    /\ Following
    /\ disk.st # "missing"
    /\ nw < MaxWrites
    /\ \E n \in 0..(Len(disk.bytes) - 1) :
          disk' = [disk EXCEPT !.bytes = SubSeq(@, 1, n)]
    /\ nw' = nw + 1
    /\ UNCHANGED <<cfg, fpc, fret, fpos, flog, nb, readerVars, runVars, parseVars, matchVars>>

\* the target file is removed or made unreadable, or is there again
DiskStatus ==
    /\ Following
    /\ nw < MaxWrites
    /\ \E st \in {"ok", "missing", "noread"} :
          /\ st # disk.st
          /\ disk' = [disk EXCEPT !.st = st]
    /\ nw' = nw + 1
    /\ UNCHANGED <<cfg, fpc, fret, fpos, flog, nb, readerVars, runVars, parseVars, matchVars>>

NextFollow ==
    \/ FollowStart \/ FollowWait \/ FollowStat \/ FollowRead \/ FollowRestat
    \/ WriterAppend \/ WriterTruncate \/ DiskStatus

SpecFollow == InitFollow /\ [][NextFollow]_vars

\* the call of follow runs: its first statements and the loop of
\* get_initial_file_position are executed again and again
SpecFollowLive == SpecFollow /\ WF_vars(FollowStart) /\ WF_vars(FollowWait)

\* ------------------------------------------------ claims: single source
\* the line numbers the output shows
Emitted(o) == { o[k].n : k \in { j \in DOMAIN o : o[j].kind = "line" } }

\* line i of the source is a final (post-invert) match
Final(i) == FinalMatch(cfg, lines[i])

\* line i is a final match or lies in the context window of one
InWindow(i) ==
    \E m \in 1..Len(lines) :
        /\ Final(m)
        /\ \/ i = m
           \/ m - cfg.before <= i /\ i < m
           \/ m < i /\ i <= m + cfg.after

ReaderDoneNormal == rpc = "done" /\ result.ok /\ ~cfg.count /\ ~cfg.quiet

\* C1: in non-count, non-quiet mode run_on_reader emits a source line iff it is
\* a final match or one of the `before` lines preceding or `after` lines
\* following a final match; with before = after = 0 only matches are emitted;
\* no line number outside the source is ever emitted, and an emitted number
\* carries the text of that source line.
C1_EmitsMatchAndContextOnly ==
    /\ Emitted(rd.out) \subseteq 1..Len(lines)
    /\ ReaderDoneNormal =>
          /\ Emitted(result.output) = { i \in 1..Len(lines) : InWindow(i) }
          /\ \A k \in DOMAIN result.output :
                result.output[k].text.id = lines[result.output[k].n].id
          /\ (cfg.before = 0 /\ cfg.after = 0) =>
                \A k \in DOMAIN result.output : Final(result.output[k].n)

\* C1 witness: a finished search that emitted a before-context line and an
\* after-context line and left another line out
C1_Witness ==
    /\ ReaderDoneNormal
    /\ cfg.before > 0 /\ cfg.after > 0
    /\ \E m \in 2..(Len(lines) - 1) :
          /\ Final(m) /\ ~Final(m - 1) /\ ~Final(m + 1)
          /\ {m - 1, m, m + 1} \subseteq Emitted(result.output)
    /\ Emitted(result.output) # 1..Len(lines)

\* the texts of a sequence of printed lines, without highlight markers
Ids(ls) == [k \in DOMAIN ls |-> ls[k].id]

\* C2: fed the same (line, is_match) pairs from a fresh state, the batch loop
\* of run_on_reader and FollowEngine.handle_line emit the same sequence of lines.
C2_BatchEmitsWhatFollowEmits ==
    (ReaderDoneNormal /\ fidx = Len(lines)) =>
        Ids([k \in DOMAIN result.output |-> result.output[k].text]) = Ids(fout)

\* run_on_reader has returned a result in count mode
ReaderDoneCount == rpc = "done" /\ result.ok /\ cfg.count

\* the number of lines of the source that are final (post-invert) matches
FinalCount == Cardinality({ i \in 1..Len(lines) : Final(i) })

\* the result of the same call with other before/after settings
WithContext(b, a) ==
    run_on_reader([cfg EXCEPT !.before = b, !.after = a], Reader(FALSE, lines), None)

\* C11 as stated: in count mode run_on_reader outputs exactly one line, which
\* carries the number of final-match lines, and never any line text; the
\* result is the same for every before/after setting.
C11_CountOutputsOneLine ==
    /\ cfg.count => rd.out = <<>> /\ rd.before_buf = <<>>
    /\ ReaderDoneCount =>
          /\ result.output = <<CountLine(None, FinalCount)>>
          /\ \A b, a \in 0..MaxCtx : WithContext(b, a) = result

\* C11 amended: in count mode without quiet the output is exactly the one
\* line carrying the number of final-match lines; with quiet it is empty;
\* no line text is kept or emitted and the result is the same for every
\* before/after setting.
C11_CountOutputsOneLineUnlessQuiet ==
    /\ cfg.count => rd.out = <<>> /\ rd.before_buf = <<>>
    /\ ReaderDoneCount =>
          /\ ~cfg.quiet => result.output = <<CountLine(None, FinalCount)>>
          /\ cfg.quiet => result.output = <<>>
          /\ \A b, a \in 0..MaxCtx : WithContext(b, a) = result

\* C11 witness: a count with context settings and invert over a source that
\* has final matches and lines that are none
C11_Witness ==
    /\ ReaderDoneCount /\ ~cfg.quiet
    /\ cfg.before > 0 /\ cfg.after > 0
    /\ FinalCount >= 2 /\ FinalCount < Len(lines)
    /\ result.output = <<CountLine(None, FinalCount)>>

\* the configuration with invert flipped
Inverted(c) == [c EXCEPT !.invert = ~c.invert]

\* C12: a line is a final match under invert = true iff it is not one under
\* invert = false; the running count counts final matches; and the count with
\* invert plus the count without it is the number of lines of the source.
C12_InvertNegatesTheMatch ==
    /\ \A i \in 1..Len(lines) :
          FinalMatch(Inverted(cfg), lines[i]) <=> ~FinalMatch(cfg, lines[i])
    /\ rpc \in {"loop", "done"} =>
          /\ rd.match_count = Cardinality({ i \in 1..rd.idx : Final(i) })
          /\ rd.matched_any <=> \E i \in 1..rd.idx : Final(i)
    /\ (ReaderDoneCount /\ ~cfg.quiet) =>
          LET other == run_on_reader(Inverted(cfg), Reader(FALSE, lines), None)
          IN result.output[1].count + other.output[1].count = Len(lines)

\* C12 witness: an inverted count over a source with lines that match the
\* pattern and lines that do not
C12_Witness ==
    /\ ReaderDoneCount /\ ~cfg.quiet /\ cfg.invert
    /\ result.output[1].count >= 1
    /\ result.output[1].count < Len(lines)
    /\ \E i \in 1..Len(lines) : IsMatch(lines[i]) /\ ~Final(i)

\* ------------------------------------------------- claims: multi source
\* the sources run searches: stdin alone, or the files left by the binary filter
Searched == IF Len(files) = 1 /\ files[1].stdin THEN {0} ELSE Kept(files)

\* source i has a line that is a final (post-invert) match
HasFinal(i) ==
    \E k \in DOMAIN files[i + 1].lines : FinalMatch(cfg, files[i + 1].lines[k])

\* the elements of a set of numbers in increasing order
RECURSIVE Ascending(_)
Ascending(S) ==
    IF S = {} THEN <<>>
    ELSE LET lo == CHOOSE x \in S : \A y \in S : x <= y
         IN <<lo>> \o Ascending(S \ {lo})

\* the results of the tasks had they completed in input order
InOrderResults ==
    LET order == Ascending(Kept(files))
    IN [k \in DOMAIN order |->
           [idx |-> order[k], res |-> Worker(cfg, files[order[k] + 1], order[k])]]

RunDone == phase = "done"
RunDoneOk == phase = "done" /\ runResult.ok
Parallel == Cardinality(Kept(files)) >= 2 /\ ~(Len(files) = 1 /\ files[1].stdin)
MultiNormal == RunDoneOk /\ Parallel /\ ~cfg.count /\ ~cfg.quiet

\* the input index of the file an output line is from
SrcOf(entry) == entry.src[1]

\* every line of the output carries a parseable timestamp
AllStamped(o) == \A k \in DOMAIN o : parse_ts_from_formatted_line(o[k]) # None

\* the tasks completed in an order that is not the input order
OutOfOrder == \E j, k \in DOMAIN results : j < k /\ results[j].idx > results[k].idx

\* C3 as stated: for N >= 2 files in normal mode every emitted line of an
\* earlier input file precedes every emitted line of a later input file.
C3_OutputInInputOrder ==
    MultiNormal =>
        \A j, k \in DOMAIN runResult.output :
            j < k => SrcOf(runResult.output[j]) <= SrcOf(runResult.output[k])

\* C3 amended: a line of a later input file precedes a line of an earlier one
\* only when every emitted line carries a parseable timestamp and its
\* timestamp is strictly earlier; whatever order the tasks complete in.
C3_InputOrderUnlessMerged ==
    MultiNormal =>
        \A j, k \in DOMAIN runResult.output :
            j < k =>
                \/ SrcOf(runResult.output[j]) <= SrcOf(runResult.output[k])
                \/ /\ AllStamped(runResult.output)
                   /\ TupleCmp(runResult.output[j].text.ts, runResult.output[k].text.ts) < 0

\* C3 witness: tasks completed out of input order, two files contributed
\* lines, one line has no timestamp, and the output follows the input order
C3_Witness ==
    /\ MultiNormal
    /\ OutOfOrder
    /\ ~AllStamped(runResult.output)
    /\ \E j, k \in DOMAIN runResult.output :
          j < k /\ SrcOf(runResult.output[j]) < SrcOf(runResult.output[k])

\* C4: for two or more files the result of run (output, status or error) is
\* the one the tasks give when they complete in input order, whatever order
\* they complete in.
C4_ResultIndependentOfCompletionOrder ==
    (RunDone /\ Parallel) => runResult = Aggregate(cfg, InOrderResults)

\* C4 witness: tasks completed out of input order and run returned lines of
\* two files, or the errors of two sources
C4_Witness ==
    /\ RunDone /\ Parallel /\ OutOfOrder
    /\ \/ ~runResult.ok /\ Len(runResult.errs) >= 2
       \/ runResult.ok /\ Len(runResult.output) >= 2

\* the output lines of each searched file, concatenated in input order
ConcatInOrder == concat_outputs(OutputsPerFile(InOrderResults))

\* the lines of o that are from file i and carry timestamp t, in their order
Class(o, i, t) ==
    SelectSeq(o, LAMBDA e : SrcOf(e) = i /\ parse_ts_from_formatted_line(e) = Some(t))

\* the timestamps the lines of o carry
Stamps(o) == { o[k].text.ts : k \in DOMAIN o }

\* o holds exactly the lines of the per-file outputs (as s.lines() gives
\* them), ordered by timestamp, then by file index, then by their order in
\* the file's own output
SortedMerge(o) ==
    /\ Len(o) = Len(ConcatInOrder)
    /\ \A j, k \in DOMAIN o :
          j < k =>
              \/ TupleCmp(o[j].text.ts, o[k].text.ts) < 0
              \/ /\ TupleCmp(o[j].text.ts, o[k].text.ts) = 0
                 /\ SrcOf(o[j]) <= SrcOf(o[k])
    /\ \A i \in Kept(files) : \A t \in Stamps(ConcatInOrder) :
          Class(o, i, t) = Class(StrLines(ConcatInOrder), i, t)

\* C5: in normal multi-file mode the output is all emitted lines sorted by
\* (timestamp, file index, line index) when every emitted line of every
\* source carries a parseable timestamp, and otherwise (only then) the
\* per-file outputs concatenated in input order.
C5_MergeIffAllStamped ==
    MultiNormal =>
        IF AllStamped(ConcatInOrder)
        THEN SortedMerge(runResult.output)
        ELSE runResult.output = ConcatInOrder

\* C5 witness: every emitted line carries a timestamp and the merge put a
\* line of a later file before a line of an earlier file
C5_Witness ==
    /\ MultiNormal
    /\ AllStamped(ConcatInOrder)
    /\ runResult.output # ConcatInOrder
    /\ Len(runResult.output) >= 2

\* file i has a NUL byte among its first BinaryPrefix bytes
NulInPrefix(i) ==
    /\ ~files[i + 1].stdin
    /\ files[i + 1].st \in {"ok", "badutf8"}
    /\ files[i + 1].nul # None
    /\ files[i + 1].nul[1] < BinaryPrefix

\* the number of final-match lines of source i
RECURSIVE CountFinal(_)
CountFinal(ls) ==
    IF ls = <<>> THEN 0
    ELSE (IF FinalMatch(cfg, Head(ls)) THEN 1 ELSE 0) + CountFinal(Tail(ls))

\* C6: a file with a NUL byte in its first 4096 bytes contributes no output
\* line and no count, and cannot make the status MatchFound, even when its
\* text matches; the path "-" is never excluded as binary.
C6_BinaryFilesExcluded ==
    RunDoneOk =>
        /\ \A k \in DOMAIN runResult.output :
              LET e == runResult.output[k]
              IN IF e.kind = "line"
                 THEN e.src = None \/ ~NulInPrefix(SrcOf(e))
                 ELSE IF e.name # None THEN ~NulInPrefix(e.name[1])
                 ELSE \E i \in 0..(Len(files) - 1) :
                         ~NulInPrefix(i) /\ e.count = CountFinal(files[i + 1].lines)
        /\ runResult.status = MatchFound =>
              \E i \in 0..(Len(files) - 1) : ~NulInPrefix(i) /\ HasFinal(i)
        /\ \A i \in 0..(Len(files) - 1) :
              (files[i + 1].stdin /\ HasFinal(i)) => runResult.status = MatchFound

\* C6 witness: a file with a NUL at offset 4095 whose text matches was given
\* with a text file that does not match, and run found no match
C6_Witness ==
    /\ RunDoneOk
    /\ ~cfg.quiet
    /\ \E i \in 0..(Len(files) - 1) :
          NulInPrefix(i) /\ HasFinal(i) /\ files[i + 1].nul = Some(BinaryPrefix - 1)
    /\ \E i \in 0..(Len(files) - 1) : ~NulInPrefix(i) /\ files[i + 1].lines # <<>>
    /\ runResult.status = NoMatch

\* searched source i fails: it cannot be opened or read, or the pattern is bad
Fails(i) ==
    \/ OpenFails(files[i + 1])
    \/ ReaderOf(files[i + 1]).fails
    \/ PatternError(cfg) # None

\* the message of the failure of source i
FailureOf(i) ==
    IF OpenFails(files[i + 1]) THEN "open error"
    ELSE IF PatternError(cfg) # None THEN PatternError(cfg)[1]
    ELSE "read error"

\* C7: if opening, reading or searching any searched source fails, run
\* returns an error and no result, and in the multi-file case the error
\* carries the message of every failed source.
C7_AnyFailureIsAnError ==
    RunDone =>
        /\ (\E i \in Searched : Fails(i)) => ~runResult.ok
        /\ ~runResult.ok =>
              LET failed == SelectSeq(Ascending(Searched), Fails)
              IN /\ failed # <<>>
                 /\ Parallel => runResult.errs = [k \in DOMAIN failed |-> FailureOf(failed[k])]

\* C7 witness: of two files one was searched and has a match and the other
\* cannot be opened or read; the task of the failing one completed last and
\* run returned its error
C7_Witness ==
    /\ RunDone /\ Parallel /\ OutOfOrder
    /\ ~runResult.ok
    /\ \E i \in Searched : ~Fails(i) /\ HasFinal(i)
    /\ ~results[Len(results)].res.ok

\* C7 witness of several failures: both errors are returned
C7_WitnessTwoErrors ==
    /\ RunDone /\ Parallel /\ OutOfOrder
    /\ ~runResult.ok
    /\ Len(runResult.errs) >= 2
    /\ runResult.errs[1] # runResult.errs[2]

\* C8: a pattern error is always fatal: with an empty pattern list, a rejected
\* boolean expression or a pattern that does not compile, run returns an
\* error for every set of input paths.
C8_PatternErrorIsFatal ==
    (RunDone /\ cfg.patterns # PatOk) => ~runResult.ok

\* C10: run returns MatchFound iff at least one searched source has a final
\* match line, and NoMatch otherwise, also when every input was excluded or
\* there is no input.
C10_StatusIffSomeFinalMatch ==
    RunDoneOk =>
        /\ runResult.status \in {MatchFound, NoMatch}
        /\ runResult.status = MatchFound <=> \E i \in Searched : HasFinal(i)

\* C10 witness: of several searched files only a later one has a final match,
\* and the first task to complete found none
C10_Witness ==
    /\ RunDoneOk /\ Parallel
    /\ runResult.status = MatchFound
    /\ ~HasFinal(results[1].idx)
    /\ \E i \in Searched : ~HasFinal(i) /\ files[i + 1].lines # <<>>

\* C10 witness of the other outcome: every input was excluded as binary
C10_AllExcluded ==
    /\ RunDoneOk
    /\ Len(files) >= 1
    /\ Kept(files) = {}
    /\ runResult.status = NoMatch

\* run has returned a result in count mode
RunDoneCount == RunDoneOk /\ cfg.count

\* the "<filename>:<count>" lines of the searched files, in input order
CountLinesInOrder ==
    LET order == Ascending(Kept(files))
    IN [k \in DOMAIN order |->
           CountLine(Some(order[k]), CountFinal(files[order[k] + 1].lines))]

\* the output of count mode for the number of sources that are searched
CountFormat ==
    /\ Parallel => runResult.output = CountLinesInOrder
    /\ Cardinality(Searched) = 1 =>
          \A i \in Searched :
              runResult.output = <<CountLine(None, CountFinal(files[i + 1].lines))>>

\* C13 as stated: in count mode, with two or more sources left after binary
\* exclusion the output is one "<filename>:<count>" line per source in input
\* order, sources without a match included and without chronological merge;
\* with exactly one file left, or stdin, it is the bare count.
C13_CountFormatBySourceCount == RunDoneCount => CountFormat

\* C13 amended: the same, unless quiet is set, in which case the output is
\* empty.
C13_CountFormatUnlessQuiet ==
    RunDoneCount => IF cfg.quiet THEN runResult.output = <<>> ELSE CountFormat

\* C13 witness: two files counted, the tasks completed out of input order,
\* one file has no final match and is listed with 0
C13_Witness ==
    /\ RunDoneCount /\ ~cfg.quiet /\ Parallel /\ OutOfOrder
    /\ Len(runResult.output) = 2
    /\ runResult.output[1].name = Some(0)
    /\ runResult.output[1].count = 0
    /\ runResult.output[2].count >= 1

\* C13 witness of the bare count: of two files one is excluded as binary and
\* the count of the other is printed without its name
C13_WitnessSingle ==
    /\ RunDoneCount /\ ~cfg.quiet
    /\ Len(files) = 2 /\ Cardinality(Kept(files)) = 1
    /\ Len(runResult.output) = 1
    /\ runResult.output[1].name = None
    /\ runResult.output[1].count >= 1

\* ------------------------------------------------ the two entry points
\* calls of run_on_reader and calls of run
InitAll == InitReader \/ InitRun

NextAll == NextReader \/ NextRun

SpecAll == InitAll /\ [][NextAll]_vars

\* ------------------------------------------------- claims: line format
\* what is printed for an output entry: "<n>:<text>" or the count line
Printed(e) ==
    IF e.kind = "line" THEN [n |-> e.n, text |-> e.text]
    ELSE [name |-> e.name, count |-> e.count]

\* the text of a match line as run_on_reader emits it: with color set and
\* line not set, the spans the pattern matches are wrapped in markers
Shown(c, raw_line) ==
    IF c.color /\ ~c.line /\ FinalMatch(c, raw_line)
    THEN highlight_segments(raw_line) ELSE raw_line

\* every line entry of o is "<n>:<content>" for a line n of the source ls,
\* with content the text of that line (shown: as run_on_reader shows it)
LinesOf(o, ls, shown) ==
    \A k \in DOMAIN o :
        o[k].kind = "line" =>
            /\ o[k].n \in 1..Len(ls)
            /\ o[k].text = IF shown THEN Shown(cfg, ls[o[k].n]) ELSE ls[o[k].n]

\* the same text up to a carriage return at its end
SameText(a, b) == [a EXCEPT !.cr = FALSE] = [b EXCEPT !.cr = FALSE]

\* the source a line of the output of run is from
LinesOfSource(e) == IF e.src = None THEN files[1].lines ELSE files[e.src[1] + 1].lines

\* a name was passed or not: the printed output is the same
NameNotPrinted(ls) ==
    LET named == run_on_reader(cfg, Reader(FALSE, ls), Some(0))
        bare == run_on_reader(cfg, Reader(FALSE, ls), None)
    IN (named.ok /\ ~cfg.count) =>
          [k \in DOMAIN named.output |-> Printed(named.output[k])]
              = [k \in DOMAIN bare.output |-> Printed(bare.output[k])]

\* C14 as stated: every line run_on_reader emits in non-count mode is
\* "<n>:<content>" with n one more than the 0-based index of a line of the
\* source and content that line's text; no filename is printed, whether or
\* not a name was passed and however many files are searched.
C14_LineNumberAndText ==
    /\ (rpc = "done" /\ result.ok /\ ~cfg.count) =>
          /\ LinesOf(result.output, lines, FALSE)
          /\ NameNotPrinted(lines)
    /\ (RunDoneOk /\ ~cfg.count) =>
          /\ \A k \in DOMAIN runResult.output :
                LET e == runResult.output[k]
                IN /\ e.kind = "line"
                   /\ e.n \in 1..Len(LinesOfSource(e))
                   /\ SameText(e.text, LinesOfSource(e)[e.n])
          /\ \A i \in Searched : NameNotPrinted(files[i + 1].lines)

\* C14 amended: the content is that line's text, in which the spans the
\* pattern matches are wrapped in highlight markers when the line is a final
\* match, color is set and line is not.
C14_LineNumberAndShownText ==
    /\ (rpc = "done" /\ result.ok /\ ~cfg.count) =>
          /\ LinesOf(result.output, lines, TRUE)
          /\ NameNotPrinted(lines)
    /\ (RunDoneOk /\ ~cfg.count) =>
          /\ \A k \in DOMAIN runResult.output :
                LET e == runResult.output[k]
                IN /\ e.kind = "line"
                   /\ e.n \in 1..Len(LinesOfSource(e))
                   /\ SameText(e.text, Shown(cfg, LinesOfSource(e)[e.n]))
          /\ \A i \in Searched : NameNotPrinted(files[i + 1].lines)

\* C14 witness: run over two files printed the second line of the second
\* file as line 2, without color
C14_Witness ==
    /\ MultiNormal /\ ~cfg.color
    /\ \E k \in DOMAIN runResult.output :
          /\ runResult.output[k].src = Some(1)
          /\ runResult.output[k].n = 2
          /\ runResult.output[k].text = files[2].lines[2]

\* C14 witness for run_on_reader: with color a match line is printed with
\* markers and a context line without, both under their line numbers
C14_WitnessReader ==
    /\ ReaderDoneNormal /\ cfg.color /\ ~cfg.line
    /\ \E j, k \in DOMAIN result.output :
          /\ result.output[j].text.hl /\ result.output[j].n >= 2
          /\ ~result.output[k].text.hl /\ result.output[k].n >= 2

\* C9: with quiet set, run_on_reader and run return an empty output for every
\* input and every combination of the other flags, and the status is
\* MatchFound exactly when some line of a searched source is a final match.
C9_QuietEmptyOutputStatusKept ==
    /\ (rpc = "done" /\ result.ok /\ cfg.quiet) =>
          /\ result.output = <<>>
          /\ result.status = MatchFound <=> \E i \in 1..Len(lines) : Final(i)
    /\ (RunDoneOk /\ cfg.quiet) =>
          /\ runResult.output = <<>>
          /\ runResult.status = MatchFound <=> \E i \in Searched : HasFinal(i)

\* C9 witness: quiet together with count, invert, color and context on a
\* source that has final matches and lines that are none
C9_Witness ==
    /\ rpc = "done" /\ result.ok
    /\ cfg.quiet /\ cfg.count /\ cfg.invert /\ cfg.color
    /\ cfg.before > 0 /\ cfg.after > 0
    /\ result.status = MatchFound
    /\ \E i \in 1..Len(lines) : ~Final(i)

\* C9 witness for run: quiet with several files, one of which has a match
C9_WitnessRun ==
    /\ RunDoneOk /\ Parallel /\ cfg.quiet
    /\ runResult.status = MatchFound
    /\ \E i \in Searched : ~HasFinal(i)

\* ------------------------------------------------- claims: the parser
\* parse_boolean_expression(raw) has returned
ParsedDone == ppc = "parsed"

LitA == Pattern(<<"a">>)
LitB == Pattern(<<"b">>)
LitC == Pattern(<<"c">>)

\* the character at position i of s is taken as escaped by a backslash
RECURSIVE IsEscaped(_, _)
IsEscaped(s, i) == i > 1 /\ s[i - 1] = "\\" /\ ~IsEscaped(s, i - 1)

\* once parsed, the string input has given the tree
Parses(input, tree) == (ParsedDone /\ raw = input) => parsed = ExprOk(tree)

\* a left-nested chain of And whose right operands are literals
RECURSIVE AndChain(_)
AndChain(t) ==
    IF t.op = "Pattern" THEN TRUE
    ELSE t.op = "And" /\ t.right.op = "Pattern" /\ AndChain(t.left)

\* a left-nested chain of Or whose operands are chains of And
RECURSIVE OrChain(_)
OrChain(t) ==
    IF t.op = "Or" THEN AndChain(t.right) /\ OrChain(t.left) ELSE AndChain(t)

\* the literals of a tree with its operators between them, left to right
RECURSIVE Flatten(_)
Flatten(t) ==
    IF t.op = "Pattern" THEN t.pattern
    ELSE Flatten(t.left) \o <<IF t.op = "And" THEN "&" ELSE "|">> \o Flatten(t.right)

\* s holds letters, '&' and '|' only
OperatorsOnly(s) == \A i \in DOMAIN s : s[i] \in Letters \cup {"c"} \cup Operators

\* s holds no whitespace and no backslash
NoSpaceNoEscape(s) == \A i \in DOMAIN s : s[i] # " " /\ s[i] # "\\"

\* the parser reads s to its end
ConsumedWhole(s) == parse_or_expression(s, 0).pos = Len(s)

\* C15: '&' binds tighter than '|' and both associate to the left: a|b&c is
\* Or(a, And(b, c)), a&b|c is Or(And(a, b), c), a&b&c is And(And(a, b), c);
\* every tree of a string of literals and operators is a left-nested chain of
\* Or over left-nested chains of And that spells the string; and a
\* parenthesised sub-expression is a single operand: a&(b|c) is
\* And(a, Or(b, c)), and a&(e) is And(a, tree of e) for every expression e
\* that parse reads to its end.
C15_AndBindsTighterLeftAssoc ==
    /\ Parses(<<"a", "|", "b", "&", "c">>, Or(LitA, And(LitB, LitC)))
    /\ Parses(<<"a", "&", "b", "|", "c">>, Or(And(LitA, LitB), LitC))
    /\ Parses(<<"a", "&", "b", "&", "c">>, And(And(LitA, LitB), LitC))
    /\ Parses(<<"a", "&", "(", "b", "|", "c", ")">>, And(LitA, Or(LitB, LitC)))
    /\ Parses(<<"(", "a", "|", "b", ")", "&", "c">>, And(Or(LitA, LitB), LitC))
    /\ (ParsedDone /\ parsed.ok /\ OperatorsOnly(raw)) =>
          /\ OrChain(parsed.expr)
          /\ Flatten(parsed.expr) = raw
    /\ (ParsedDone /\ parsed.ok /\ NoSpaceNoEscape(raw) /\ ConsumedWhole(raw)) =>
          parse_boolean_expression(<<"a", "&", "(">> \o raw \o <<")">>)
              = ExprOk(And(LitA, parsed.expr))

\* C15 witness: a&(b|c) has been parsed to And(a, Or(b, c))
C15_Witness ==
    /\ ParsedDone
    /\ raw = <<"a", "&", "(", "b", "|", "c", ")">>
    /\ parsed = ExprOk(And(LitA, Or(LitB, LitC)))

\* C15 witness of the precedence: a|b&a has been parsed to Or(a, And(b, a))
C15_WitnessPrecedence ==
    /\ ParsedDone
    /\ raw = <<"a", "|", "b", "&", "a">>
    /\ parsed = ExprOk(Or(LitA, And(LitB, LitA)))

\* the parentheses of s[1..i] that are not escaped: opened minus closed
Depth(s, i) ==
    Cardinality({ j \in 1..i : s[j] = "(" /\ ~IsEscaped(s, j) })
        - Cardinality({ j \in 1..i : s[j] = ")" /\ ~IsEscaped(s, j) })

\* every ')' closes an earlier '(' and every '(' is closed
Balanced(s) == Depth(s, Len(s)) = 0 /\ \A i \in 1..Len(s) : Depth(s, i) >= 0

\* C16: every expression with unbalanced parentheses is rejected by parse
\* with the unclosed-parenthesis error; no tree is returned for it.
C16_UnbalancedRejected ==
    (ParsedDone /\ ~Balanced(raw)) => parsed = ParseErr(ExpectedClosing)

\* every Literal of the tree is non-empty and every And/Or has two subtrees
RECURSIVE WellFormed(_)
WellFormed(t) ==
    IF t.op = "Pattern" THEN t.pattern # <<>>
    ELSE t.op \in {"And", "Or"} /\ WellFormed(t.left) /\ WellFormed(t.right)

\* in a string of letters and operators a primary position is empty: the
\* string is empty, starts or ends with an operator, or has two in a row
EmptyOperand(s) ==
    \/ s = <<>>
    \/ s[1] \in Operators
    \/ s[Len(s)] \in Operators
    \/ \E i \in 1..(Len(s) - 1) : s[i] \in Operators /\ s[i + 1] \in Operators

\* the first character of s after its leading whitespace, if any
FirstChar(s) == current_char(s, skip_whitespace(s, 0))

\* C17: parse fails with the empty-pattern error whenever a primary position
\* yields no character: "()", an operator at the start, two adjacent
\* operators, the end of the input right after an operator; and every tree
\* parse returns has non-empty literals and two subtrees under each And/Or.
C17_EmptyPrimaryRejected ==
    ParsedDone =>
        /\ parsed.ok => WellFormed(parsed.expr)
        /\ (FirstChar(raw) = None \/ FirstChar(raw)[1] \in Operators) =>
              parsed = ParseErr(ExpectedPattern)
        /\ (Len(raw) >= 2 /\ raw[1] = "(" /\ FirstChar(Tail(raw)) = Some(")")) =>
              parsed = ParseErr(ExpectedPattern)
        /\ OperatorsOnly(raw) =>
              (parsed = ParseErr(ExpectedPattern) <=> EmptyOperand(raw))
        /\ OperatorsOnly(raw) => (parsed.ok <=> ~EmptyOperand(raw))

\* C17 witness: a string with two adjacent operators after a literal has been
\* rejected with the empty-pattern error
C17_Witness ==
    /\ ParsedDone
    /\ OperatorsOnly(raw)
    /\ Len(raw) >= 4
    /\ raw[1] \in Letters /\ raw[Len(raw)] \in Letters
    /\ \E i \in 1..(Len(raw) - 1) : raw[i] \in Operators /\ raw[i + 1] \in Operators
    /\ parsed = ParseErr(ExpectedPattern)

\* C17 witness of "()"
C17_WitnessEmptyParens ==
    /\ ParsedDone
    /\ raw = <<"(", ")">>
    /\ parsed = ParseErr(ExpectedPattern)

\* s holds no '&', no '|' and no parenthesis
NoOperatorOrParen(s) == \A i \in DOMAIN s : s[i] \notin Operators \cup Parens

\* every whitespace character of s is escaped
NoBareWhitespace(s) == \A i \in DOMAIN s : s[i] = " " => IsEscaped(s, i)

Blank(s, i) == s[i] = " " /\ ~IsEscaped(s, i)

\* the nearest position before (after) i that is not blank, or 0
RECURSIVE PrevNonBlank(_, _)
PrevNonBlank(s, i) ==
    IF i <= 1 THEN 0
    ELSE IF ~Blank(s, i - 1) THEN i - 1 ELSE PrevNonBlank(s, i - 1)

RECURSIVE NextNonBlank(_, _)
NextNonBlank(s, i) ==
    IF i >= Len(s) THEN 0
    ELSE IF ~Blank(s, i + 1) THEN i + 1 ELSE NextNonBlank(s, i + 1)

\* position i of s holds an operator or a parenthesis of the grammar: an
\* unescaped '&', '|' or ')', or a '(' where a primary starts
RECURSIVE IsToken(_, _)
IsToken(s, i) ==
    /\ i \in DOMAIN s
    /\ ~IsEscaped(s, i)
    /\ \/ s[i] \in {"&", "|", ")"}
       \/ /\ s[i] = "("
          /\ LET p == PrevNonBlank(s, i)
             IN p = 0 \/ (s[p] \in {"&", "|", "("} /\ IsToken(s, p))

\* s without the whitespace that stands before or after an operator or a
\* parenthesis
Squeeze(s) ==
    LET keep == { i \in DOMAIN s :
                    ~(Blank(s, i) /\ (IsToken(s, PrevNonBlank(s, i))
                                        \/ IsToken(s, NextNonBlank(s, i)))) }
        order == Ascending(keep)
    IN [k \in DOMAIN order |-> s[order[k]]]

\* C19: whitespace before or after an operator or a parenthesis does not
\* change the tree: when the input without that whitespace parses to a tree,
\* the input parses to the same tree ("a & b" as "a&b", "( a | b )" as "(a|b)").
C19_WhitespaceAroundTokensIgnored ==
    ParsedDone =>
        LET q == parse_boolean_expression(Squeeze(raw))
        IN q.ok => parsed = q

\* the parts of a non-empty sequence joined with sep between them
RECURSIVE JoinWith(_, _)
JoinWith(parts, sep) ==
    IF Len(parts) = 1 THEN parts[1]
    ELSE parts[1] \o <<sep>> \o JoinWith(Tail(parts), sep)

\* run_on_reader has chosen the matcher for raw
Selected == ppc = "selected"

\* s contains '(' or ')', or both '&' and '|'
ComplexString(s) ==
    \/ \E i \in DOMAIN s : s[i] \in Parens
    \/ (\E i \in DOMAIN s : s[i] = "&") /\ (\E i \in DOMAIN s : s[i] = "|")

C20_WitnessBoolean ==
    /\ Selected
    /\ ~contains(raw, "(") /\ ~contains(raw, ")")
    /\ matcher.ok /\ matcher.kind = "boolean"
    /\ matcher.expr.op = "Or"

\* C20 witness of a lone '|': the whole string is one regex
C20_WitnessAlternation ==
    /\ Selected
    /\ contains(raw, "|")
    /\ matcher.ok /\ matcher.kind = "regex"
    /\ matcher.pat = raw

\* ------------------------------------------- claims: order and highlighting
\* C30: in non-count mode run_on_reader writes every source line at most once
\* and the line numbers it emits are strictly increasing, for every
\* before/after setting and every placement of the matches.
C30_EachLineOnceAscending ==
    (rpc \in {"loop", "done"} /\ ~cfg.count) =>
        \A j, k \in DOMAIN rd.out : j < k => rd.out[j].n < rd.out[k].n

\* the source line with the text of a printed line is a final match
FinalText(text) == \E i \in 1..Len(lines) : lines[i].id = text.id /\ Final(i)

\* C29: a line run_on_reader or the follow engine emits carries highlight
\* markers only if it is a final match, color is set and line is not; a
\* before-context or after-context line is emitted as its source text.
C29_OnlyMatchLinesHighlighted ==
    /\ \A k \in DOMAIN rd.out :
          /\ rd.out[k].text.hl => cfg.color /\ ~cfg.line /\ Final(rd.out[k].n)
          /\ ~Final(rd.out[k].n) => rd.out[k].text = lines[rd.out[k].n]
    /\ (rpc = "done" /\ result.ok) =>
          \A k \in DOMAIN result.output :
              result.output[k].kind = "line" =>
                  /\ result.output[k].text.hl =>
                        cfg.color /\ ~cfg.line /\ Final(result.output[k].n)
                  /\ ~Final(result.output[k].n) =>
                        result.output[k].text = lines[result.output[k].n]
    /\ \A k \in DOMAIN fout :
          /\ fout[k].hl => cfg.color /\ ~cfg.line /\ FinalText(fout[k])
          /\ ~FinalText(fout[k]) => \E i \in 1..Len(lines) : fout[k] = lines[i]

\* C29 witness: with color, both modes have printed a highlighted match
\* between a before-context and an after-context line without markers
C29_Witness ==
    /\ ReaderDoneNormal /\ cfg.color /\ ~cfg.line /\ ~cfg.invert
    /\ fidx = Len(lines)
    /\ \E k \in 2..(Len(result.output) - 1) :
          /\ result.output[k].text.hl
          /\ ~Final(result.output[k - 1].n) /\ ~result.output[k - 1].text.hl
          /\ ~Final(result.output[k + 1].n) /\ ~result.output[k + 1].text.hl
    /\ \E k \in 2..(Len(fout) - 1) :
          /\ fout[k].hl
          /\ ~FinalText(fout[k - 1]) /\ ~fout[k - 1].hl
          /\ ~FinalText(fout[k + 1]) /\ ~fout[k + 1].hl

\* C29 witness under invert: a context line the pattern matches is printed
\* without markers by both modes
C29_WitnessInvert ==
    /\ ReaderDoneNormal /\ cfg.color /\ ~cfg.line /\ cfg.invert
    /\ fidx = Len(lines)
    /\ \E k \in DOMAIN result.output :
          IsMatch(lines[result.output[k].n]) /\ ~result.output[k].text.hl
    /\ \E k \in DOMAIN fout :
          \E i \in 1..Len(lines) : fout[k] = lines[i] /\ IsMatch(lines[i])

\* ------------------------------------------------- claims: the matchers
\* run_on_reader has decided is_match for the line mline
Matched == ppc = "matched"

\* the tree and its subtrees
RECURSIVE Subtrees(_)
Subtrees(expr) ==
    IF expr.op = "Pattern" THEN {expr}
    ELSE {expr} \cup Subtrees(expr.left) \cup Subtrees(expr.right)

\* the truth value of a tree on a text, with both operands always evaluated
RECURSIVE Denotes(_, _, _)
Denotes(expr, text, regexes) ==
    IF expr.op = "Pattern" THEN is_match(regexes[expr.pattern], text)
    ELSE LET l == Denotes(expr.left, text, regexes)
             r == Denotes(expr.right, text, regexes)
         IN IF expr.op = "And" THEN l /\ r ELSE l \/ r

\* the tree, its regexes and the line are what they were before a step
TreeUntouched ==
    ppc = "compiled" => matcher' = matcher /\ mline' = mline /\ cfg' = cfg

\* C21: for the parsed tree and every subtree of it, matches is true on a
\* Pattern iff the regex compiled for it (wrapped for word and line) matches
\* the line, on an And iff both operands match and on an Or iff at least one
\* does, whatever the short-circuit skips; the evaluation changes neither the
\* tree nor the regexes nor the line.
C21_MatchesIsTheTruthValue ==
    /\ [](Matched /\ matcher.kind = "boolean" =>
            /\ verdict[1].is_match = Denotes(matcher.expr, mline, matcher.regexes)
            /\ \A e \in Subtrees(matcher.expr) :
                  /\ matches(e, mline, matcher.regexes)
                        = Denotes(e, mline, matcher.regexes)
                  /\ e.op = "Pattern" =>
                        /\ e.pattern \in DOMAIN matcher.regexes
                        /\ matcher.regexes[e.pattern]
                              = Regex(e.pattern, cfg.word, cfg.line)
                        /\ matches(e, mline, matcher.regexes)
                              = is_match(Regex(e.pattern, cfg.word, cfg.line), mline))
    /\ [][TreeUntouched]_vars

\* C21 witness: an And of an Or and a pattern was evaluated to true
C21_Witness ==
    /\ Matched /\ matcher.kind = "boolean"
    /\ matcher.expr.op = "And" /\ matcher.expr.left.op = "Or"
    /\ verdict[1].is_match

\* C21 witness of a short-circuit: the left operand of an And is false on the
\* line and the right one is true
C21_WitnessShortCircuit ==
    /\ Matched /\ matcher.kind = "boolean"
    /\ matcher.expr.op = "And"
    /\ ~Denotes(matcher.expr.left, mline, matcher.regexes)
    /\ Denotes(matcher.expr.right, mline, matcher.regexes)
    /\ ~verdict[1].is_match

\* C22: on the flat path without '&', when several patterns are configured a
\* line matches iff it matches at least one of the configured patterns.
C22_SeveralPatternsAlternate ==
    (Matched /\ Len(cfg.patterns) >= 2 /\ matcher.kind = "regex") =>
        (verdict[1].is_match <=>
            \E k \in DOMAIN cfg.patterns :
                is_match(Regex(cfg.patterns[k], cfg.word, cfg.line), mline))

\* the positions that bound the '&'-separated segments of s
Cuts(s) == {0, Len(s) + 1} \cup { i \in DOMAIN s : s[i] = "&" }

\* the '&'-separated segments of s
Segments(s) ==
    { SubSeq(s, i + 1, j - 1) :
        <<i, j>> \in { c \in Cuts(s) \X Cuts(s) :
                         c[1] < c[2] /\ ~\E k \in Cuts(s) : c[1] < k /\ k < c[2] } }

\* seg occurs in text
Occurs(seg, text) ==
    \E i \in 0..(Len(text) - Len(seg)) : SubSeq(text, i + 1, i + Len(seg)) = seg

\* C23: on the flat '&' path a line matches iff every '&'-separated segment
\* matches it, a segment being wrapped as \b(?:segment)\b under word and
\* never wrapped for line: with line set (and word not), a line in which all
\* segments occur is selected.
C23_FlatAndMatchesEverySegment ==
    (Matched /\ matcher.kind = "and") =>
        /\ verdict[1].is_match <=>
              \A seg \in Segments(raw) : is_match(Regex(seg, cfg.word, FALSE), mline)
        /\ (~cfg.word /\ \A seg \in Segments(raw) : Occurs(seg, mline)) =>
              /\ verdict[1].is_match
              /\ ~cfg.invert => verdict[1].final_match

\* C23 witness: with line set, a line that is none of the two segments but
\* has both of them is matched
C23_Witness ==
    /\ Matched /\ matcher.kind = "and"
    /\ cfg.line /\ ~cfg.word /\ ~cfg.invert
    /\ Cardinality(Segments(raw)) = 2
    /\ \A seg \in Segments(raw) : seg # <<>> /\ seg # mline
    /\ verdict[1].final_match

\* C23 witness for word: both segments occur in the line, one of them not as
\* a word, and the line is not matched
C23_WitnessWord ==
    /\ Matched /\ matcher.kind = "and"
    /\ cfg.word
    /\ Cardinality(Segments(raw)) = 2
    /\ \A seg \in Segments(raw) : seg # <<>> /\ Occurs(seg, mline)
    /\ ~verdict[1].is_match

\* ---------------------------------------------------- claims: follow mode
\* the target of follow has a NUL byte among its first BinaryPrefix bytes
TargetBinary ==
    /\ Len(files) = 1 /\ ~files[1].stdin
    /\ files[1].nul # None /\ files[1].nul[1] < BinaryPrefix

\* follow is disabled, the expanded input is not exactly one file, the input
\* is stdin, or the target file is binary
PreconditionFails ==
    \/ ~cfg.follow
    \/ Len(files) # 1
    \/ files[1].stdin
    \/ TargetBinary

\* follow does not return once it waits for the file or tails it
NeverReturns == Following => fpc' # "returned" /\ fret' = None

\* C24 as stated: follow returns only on a precondition failure: it returns
\* an error when follow is disabled, the expanded input is not exactly one
\* file, the input is stdin or the target file is binary, and in every other
\* case it never returns.
C24_ReturnsOnlyOnPrecondition ==
    /\ [](fpc = "returned" => PreconditionFails /\ fret # None)
    /\ [](Following => ~PreconditionFails)
    /\ (fpc = "start" /\ PreconditionFails) ~> (fpc = "returned")
    /\ [][NeverReturns]_vars

\* the pattern of the call is rejected by the regex engine
PatternRejected == ~Builds(build_regex(cfg))

\* C24 amended: follow returns an error when a precondition fails or the
\* pattern does not compile, and in every other case it never returns.
C24_ReturnsOnlyBeforeWaiting ==
    /\ [](fpc = "returned" => (PreconditionFails \/ PatternRejected) /\ fret # None)
    /\ [](Following => ~PreconditionFails /\ ~PatternRejected)
    /\ (fpc = "start" /\ (PreconditionFails \/ PatternRejected)) ~> (fpc = "returned")
    /\ [][NeverReturns]_vars

\* C24 witness: follow refused a binary target
C24_Witness ==
    /\ fpc = "returned" /\ fret = Some("cannot follow binary file")
    /\ cfg.follow /\ TargetBinary

\* C24 witness of the other return: every precondition holds and the pattern
\* does not compile
C24_WitnessPattern ==
    /\ fpc = "returned" /\ ~PreconditionFails /\ PatternRejected

\* C24 witness of the loop: follow is tailing after an error and a batch
C24_WitnessTailing ==
    /\ fpc = "poll"
    /\ \E i, j \in DOMAIN flog : flog[i].kind = "error" /\ flog[j].kind = "batch"

\* the ids of the bytes a batch read
ReadIds(b) == UNION { b.read[k].id.ids : k \in DOMAIN b.read }

\* entry i of the log took the size it observed as the offset, and no batch
\* after it read a byte that was in the file then
NothingOldRead(i) ==
    /\ flog[i].pos = flog[i].size
    /\ \A j \in DOMAIN flog :
          (j > i /\ flog[j].kind = "batch") =>
              /\ ReadIds(flog[j]) \cap flog[i].present = {}
              /\ \A k \in DOMAIN flog[j].printed :
                    flog[j].printed[k].id.ids \cap flog[i].present = {}

\* C25: when a poll observes a size smaller than the offset, the offset is
\* reset to the observed size and no byte present in the file at that poll is
\* read or printed then or later: only content appended afterwards is.
C25_ShrinkResetsOffset ==
    \A i \in DOMAIN flog : flog[i].kind = "shrink" => NothingOldRead(i)

\* C25 witness: the file shrank to a non-empty content, and a later batch
\* read a line appended after that
C25_Witness ==
    \E i, j \in DOMAIN flog :
        /\ i < j
        /\ flog[i].kind = "shrink" /\ flog[i].present # {}
        /\ flog[j].kind = "batch" /\ flog[j].read # <<>>

\* the line starts where a line of the file starts and has its terminator
WholeLine(rec) ==
    /\ rec.id.term
    /\ rec.id.prev = None \/ rec.id.prev = Some("\n")

\* C26: every line follow evaluates is a whole line of the file, never a
\* fragment of one, also when the line is appended in several pieces.
C26_WholeLinesOnly ==
    \A i \in DOMAIN flog :
        flog[i].kind = "batch" =>
            \A k \in DOMAIN flog[i].read : WholeLine(flog[i].read[k])

\* line i of the lines read is a final match or within the context of one
InBatchWindow(read, i) ==
    \E j \in DOMAIN read :
        /\ FinalMatch(cfg, read[j])
        /\ \/ i = j
           \/ j - cfg.before <= i /\ i < j
           \/ j < i /\ i <= j + cfg.after

\* C27: every line a batch prints is a line that batch read, and is a final
\* match or within the before/after context of a final match of that batch.
C27_ContextWithinBatch ==
    \A b \in DOMAIN flog :
        flog[b].kind = "batch" =>
            \A k \in DOMAIN flog[b].printed :
                \E i \in DOMAIN flog[b].read :
                    /\ flog[b].read[i].id = flog[b].printed[k].id
                    /\ InBatchWindow(flog[b].read, i)

\* C27 witness: with before > 0, a batch ended in a line that is no match and
\* the next batch, starting with a match, printed the match alone
C27_Witness ==
    /\ cfg.before > 0
    /\ \E a, b \in DOMAIN flog :
          /\ a < b /\ flog[a].kind = "batch" /\ flog[b].kind = "batch"
          /\ flog[a].read # <<>> /\ flog[b].read # <<>>
          /\ ~FinalMatch(cfg, flog[a].read[Len(flog[a].read)])
          /\ FinalMatch(cfg, flog[b].read[1])
          /\ Len(flog[b].printed) = 1

\* C27 witness for after: a batch ended in a match and the next batch, of a
\* line that is no match, printed nothing
C27_WitnessAfter ==
    /\ cfg.after > 0
    /\ \E a, b \in DOMAIN flog :
          /\ a < b /\ flog[a].kind = "batch" /\ flog[b].kind = "batch"
          /\ flog[a].read # <<>> /\ flog[b].read # <<>>
          /\ FinalMatch(cfg, flog[a].read[Len(flog[a].read)])
          /\ ~FinalMatch(cfg, flog[b].read[1])
          /\ flog[b].printed = <<>>

\* while the file cannot be opened, follow keeps waiting
WaitsWhileMissing ==
    (fpc = "waiting" /\ disk.st # "ok" /\ disk' = disk) => fpc' = "waiting"

\* C28: follow waits, without returning, while the target cannot be opened;
\* once it opens, the size of the file is the offset and no byte present then
\* is ever read or printed; an error while tailing is followed by another
\* poll, never by a return; and a file that can be opened is opened.
C28_WaitsThenTailsFromEnd ==
    /\ [](\A i \in DOMAIN flog : flog[i].kind = "open" => NothingOldRead(i))
    /\ [](\A i \in DOMAIN flog : flog[i].kind = "error" => Following)
    /\ [][WaitsWhileMissing]_vars
    /\ [][NeverReturns]_vars
    /\ [](fpc = "waiting" => <>(fpc = "poll" \/ disk.st # "ok"))

\* C28 witness: the target did not exist when follow was called; it was
\* opened with content in it, and a later batch read a line
C28_Witness ==
    /\ Len(files) = 1 /\ files[1].st = "noopen"
    /\ \E i, j \in DOMAIN flog :
          /\ i < j
          /\ flog[i].kind = "open" /\ flog[i].present # {}
          /\ flog[j].kind = "batch" /\ flog[j].read # <<>>

\* C28 witness of a retry: an open failed while tailing and a later poll
\* read a batch
C28_WitnessRetry ==
    \E i, j \in DOMAIN flog :
        /\ i < j
        /\ flog[i].kind = "error"
        /\ flog[j].kind = "batch" /\ flog[j].read # <<>>

\* ------------------------------------------- claims: the context buffers
\* the number of lines at the end of the first n lines that are no final match
RECURSIVE TrailingRun(_)
TrailingRun(n) ==
    IF n = 0 \/ Final(n) THEN 0 ELSE 1 + TrailingRun(n - 1)

Min(a, b) == IF a < b THEN a ELSE b

\* the last k of the first n lines
LastLines(n, k) == [j \in 1..k |-> lines[n - k + j]]

\* of the lines since the last final match among the first n, those the
\* follow engine did not print as after-context
FollowBuffered(n) ==
    IF TrailingRun(n) = n THEN n
    ELSE TrailingRun(n) - Min(cfg.after, TrailingRun(n))

\* C31: in every state of the batch loop and of the follow engine the
\* before-buffer holds at most `before` lines, which are the most recently
\* buffered lines in arrival order; after_remaining is at most `after`; with
\* before = 0 the buffer is empty.
C31_BuffersBounded ==
    /\ (rpc \in {"loop", "done"} /\ ~cfg.count) =>
          LET k == Min(cfg.before, TrailingRun(rd.idx))
          IN /\ Len(rd.before_buf) <= cfg.before
             /\ rd.after_remaining <= cfg.after
             /\ [j \in DOMAIN rd.before_buf |-> rd.before_buf[j].line]
                   = LastLines(rd.idx, k)
             /\ \A j \in DOMAIN rd.before_buf :
                   rd.before_buf[j].idx = rd.idx - k + j - 1
             /\ cfg.before = 0 => rd.before_buf = <<>>
    /\ (rpc # "idle" /\ cfg.patterns = PatOk) =>
          /\ Len(engine.before_buf) <= cfg.before
          /\ engine.after_remaining <= cfg.after
          /\ engine.before_buf = LastLines(fidx, Min(cfg.before, FollowBuffered(fidx)))
          /\ cfg.before = 0 => engine.before_buf = <<>>

\* C31 witness: both buffers are full after the oldest line was evicted
C31_Witness ==
    /\ rpc = "loop" /\ ~cfg.count /\ cfg.before > 0
    /\ Len(rd.before_buf) = cfg.before
    /\ TrailingRun(rd.idx) > cfg.before
    /\ fidx = rd.idx
    /\ Len(engine.before_buf) = cfg.before
    /\ FollowBuffered(fidx) > cfg.before

\* ------------------------------------------- claims: follow and appends
\* the target file has only grown: every byte ever written is still in it
OnlyGrew == Len(disk.bytes) = nb

\* the batches of the log that read the byte id
BatchesReading(id) ==
    { j \in DOMAIN flog : flog[j].kind = "batch" /\ id \in ReadIds(flog[j]) }

\* the bytes that were in the file when follow opened it
PresentAtOpen ==
    UNION { flog[i].present : i \in { j \in DOMAIN flog : flog[j].kind = "open" } }

\* C32: while the followed file only grows, between two polls every byte
\* appended after follow opened the file and lying before the stored offset
\* has been read by exactly one batch: none is skipped and none read twice.
C32_AppendedReadExactlyOnce ==
    (OnlyGrew /\ fpc = "poll") =>
        \A k \in 1..Min(fpos, Len(disk.bytes)) :
            disk.bytes[k].id \notin PresentAtOpen =>
                Cardinality(BatchesReading(disk.bytes[k].id)) = 1

\* ------------------------------------------- claims: follow and batch
\* C33: for every pattern expression and every line, follow mode decides
\* is_match as run_on_reader does.
C33_FollowDecidesAsBatch ==
    (Matched /\ verdict[1].follow_match # None) =>
        verdict[1].follow_match[1] = verdict[1].is_match

\* ------------------------------------------- claims: the parser's input
\* the number of characters of raw the parser has read when it returns a tree
Consumed == parse_or_expression(raw, 0).pos

\* C34: when parse_boolean_expression returns a tree, the characters of the
\* input that follow what it has read are whitespace only.
C34_TreeConsumesWholeInput ==
    (ParsedDone /\ parsed.ok) =>
        \A i \in (Consumed + 1)..Len(raw) : is_whitespace(raw[i])

\* ------------------------------------- claims: flat and parenthesised AND
\* s is a non-empty string of letters
PlainWord(s) == s # <<>> /\ \A i \in DOMAIN s : s[i] \in {"a", "b", "c"}

\* raw is p&q for two sub-patterns without operators or whitespace
TwoPlainSegments ==
    LET parts == split_unescaped(raw, "&")
    IN Len(parts) = 2 /\ PlainWord(parts[1]) /\ PlainWord(parts[2])

\* the configuration with the pattern (p)&(q) for the pattern p&q of cfg
Parenthesised ==
    LET parts == split_unescaped(raw, "&")
    IN [cfg EXCEPT !.patterns =
           << <<"(">> \o parts[1] \o <<")", "&", "(">> \o parts[2] \o <<")">> >>]

\* C35: for sub-patterns p and q without operators or whitespace, p&q and
\* (p)&(q) select the same lines under every setting of word and line.
C35_FlatAndEqualsParenthesised ==
    (Matched /\ matcher.kind = "and" /\ TwoPlainSegments) =>
        LET other == CompiledMatcher(Parenthesised)
        IN /\ other.ok /\ other.kind = "boolean"
           /\ verdict[1].is_match = LineIsMatch(other, mline)

\* ------------------------------------------------------------------- C36
\* the output of file i on its own, as its task returns it
OwnOutput(i) == Worker(cfg, files[i + 1], i).output

\* the lines of o that are from file i, in their order
FromFile(o, i) == SelectSeq(o, LAMBDA e : SrcOf(e) = i)

\* run took the chronological merge
MergeTaken == MultiNormal /\ ConcatInOrder # <<>> /\ AllStamped(ConcatInOrder)

\* C36 as stated: when run merges chronologically, the lines of one file
\* appear in the merged output in the same relative order as in that file's
\* own output.
C36_SameFileOrderKept ==
    MergeTaken =>
        \A i \in Kept(files) :
            FromFile(runResult.output, i) = StrLines(OwnOutput(i))

\* C36 amended: when run merges chronologically, the lines of one file appear
\* in timestamp order, and those of them that carry the same timestamp appear
\* in the same relative order as in that file's own output; none is lost.
C36_SameFileOrderUnlessEarlier ==
    MergeTaken =>
        \A i \in Kept(files) :
            /\ Len(FromFile(runResult.output, i)) = Len(OwnOutput(i))
            /\ \A t \in Stamps(OwnOutput(i)) :
                  Class(runResult.output, i, t) = Class(StrLines(OwnOutput(i)), i, t)
            /\ \A j, k \in DOMAIN runResult.output :
                  (j < k /\ SrcOf(runResult.output[j]) = i
                         /\ SrcOf(runResult.output[k]) = i) =>
                      TupleCmp(runResult.output[j].text.ts,
                               runResult.output[k].text.ts) <= 0

\* C36 witness: the merge was taken, one file gave two different lines with
\* the same timestamp and another file gave a line too
C36_Witness ==
    /\ MergeTaken
    /\ \E i \in Kept(files) :
          /\ \E j, k \in DOMAIN OwnOutput(i) :
                /\ j < k
                /\ OwnOutput(i)[j] # OwnOutput(i)[k]
                /\ OwnOutput(i)[j].text.ts = OwnOutput(i)[k].text.ts
          /\ \E e \in Kept(files) : e # i /\ OwnOutput(e) # <<>>

\* ------------------------------------------------------------------- C37
\* how many times the line e occurs in the output o
Occurrences(o, e) == Cardinality({ k \in DOMAIN o : o[k] = e })

\* the outputs o and p hold the same lines the same number of times
SameMultiset(o, p) ==
    \A e \in { o[k] : k \in DOMAIN o } \cup { p[k] : k \in DOMAIN p } :
        Occurrences(o, e) = Occurrences(p, e)

\* C37: in normal multi-file mode the multiset of the output lines of run is
\* the union of the multisets of the per-file output lines: aggregation drops,
\* duplicates and alters no line, on the merge and on the concatenation.
C37_AggregationKeepsLines ==
    MultiNormal => SameMultiset(runResult.output, ConcatInOrder)

\* the lines are kept up to the carriage return at the end of a line
C37_KeptUpToCarriageReturn ==
    MultiNormal => SameMultiset(runResult.output,
                                IF MergeTaken THEN StrLines(ConcatInOrder)
                                ELSE ConcatInOrder)

\* ------------------------------------------------------------------- C38
\* the results of the tasks under the configuration c, in input order
ResultsWith(c) ==
    LET order == Ascending(Kept(files))
    IN [k \in DOMAIN order |->
           [idx |-> order[k], res |-> Worker(c, files[order[k] + 1], order[k])]]

\* what run returns for the inputs under the configuration c
RunWith(c) ==
    IF Len(files) = 1 /\ files[1].stdin
    THEN run_on_reader(c, ReaderOf(files[1]), None)
    ELSE IF Kept(files) = {} THEN RunResult(<<>>, NoMatch)
    ELSE IF Cardinality(Kept(files)) = 1
    THEN LET i == CHOOSE i \in Kept(files) : TRUE IN RunSingle(c, files[i + 1], i)
    ELSE Aggregate(c, ResultsWith(c))

\* the output o with the highlight markers removed
Unmarked(o) ==
    [k \in DOMAIN o |->
        IF o[k].kind = "line" THEN [o[k] EXCEPT !.text.hl = FALSE] ELSE o[k]]

\* the configuration with color disabled
NoColor == [cfg EXCEPT !.color = FALSE]

\* C38: color only adds markers: the output of run with color enabled, with
\* the highlight markers removed, is the output of run with color disabled
\* for the same inputs and the same other flags: the same lines in the same
\* order, the multi-file chronological merge included.
C38_ColorOnlyAddsMarkers ==
    (RunDoneOk /\ cfg.color) =>
        /\ RunWith(NoColor).ok
        /\ Unmarked(runResult.output) = RunWith(NoColor).output

\* with color the merge is given up when markers split a timestamp; the
\* emitted lines are the same lines all the same
C38_SameLinesAnyOrder ==
    (RunDoneOk /\ cfg.color) =>
        /\ runResult = RunWith(cfg)
        /\ RunWith(NoColor).ok
        /\ SameMultiset(StrLines(Unmarked(runResult.output)),
                        StrLines(RunWith(NoColor).output))

\* ------------------------------------------------------------------- C39
\* the configuration c with the display options count, quiet and color off
\* and no context: the patterns, the match modifiers and invert are kept
DisplayOff(c) ==
    [c EXCEPT !.count = FALSE, !.quiet = FALSE, !.color = FALSE,
              !.before = 0, !.after = 0]

\* the status of a result, or that it is an error
StatusOf(r) == IF r.ok THEN Some(r.status) ELSE None

\* C39: for fixed patterns, match modifiers, invert setting and inputs, the
\* status run and run_on_reader return is the same for every setting of the
\* display options count, quiet, color, before and after: under every
\* setting it is the status returned with all of them off.
C39_StatusIndependentOfDisplay ==
    /\ rpc = "done" =>
          StatusOf(result)
              = StatusOf(run_on_reader(DisplayOff(cfg), Reader(FALSE, lines), None))
    /\ RunDone => StatusOf(runResult) = StatusOf(RunWith(DisplayOff(cfg)))

\* C39 witness: run over several files with quiet, count, color and context
\* set returned MatchFound without output, and with the display options off
\* it prints lines
C39_Witness ==
    /\ RunDoneOk /\ Parallel
    /\ cfg.quiet /\ cfg.count /\ cfg.color /\ cfg.before > 0 /\ cfg.after > 0
    /\ runResult.status = MatchFound
    /\ runResult.output = <<>>
    /\ RunWith(DisplayOff(cfg)).output # <<>>

\* ------------------------------------------------------------------- C40
\* the characters that end a literal run of the parser
Delimiter(ch) == ch = "&" \/ ch = "|" \/ ch = ")" \/ is_whitespace(ch)

\* a literal run may start after position p: the character there is not
\* taken as escaped
MayStartRun(s, p) == p < Len(s) => ~IsEscaped(s, p + 1)

\* the literal run from position p is the text up to the first delimiter
\* that is not escaped, kept as written
LiteralRunKeepsEscapes(s, p) ==
    LET lit == PatternLoop(s, p, <<>>, FALSE)
    IN /\ lit.pos \in p..Len(s)
       /\ lit.pattern = SubSeq(s, p + 1, lit.pos)
       /\ \A k \in (p + 1)..lit.pos : Delimiter(s[k]) => IsEscaped(s, k)
       /\ lit.pos < Len(s) =>
             Delimiter(s[lit.pos + 1]) /\ ~IsEscaped(s, lit.pos + 1)

\* every '&', '|', parenthesis and whitespace of s is escaped
AllSpecialEscaped(s) ==
    \A k \in DOMAIN s :
        (Delimiter(s[k]) \/ s[k] = "(") => IsEscaped(s, k)

\* the position in join(parts, "&") of the separator after part i
RECURSIVE SeparatorPos(_, _)
SeparatorPos(parts, i) ==
    IF i = 0 THEN 0 ELSE SeparatorPos(parts, i - 1) + Len(parts[i]) + 1

\* the segments parts are s cut at exactly the '&' that are not escaped
CutAtUnescaped(s, parts) ==
    /\ join(parts, <<"&">>) = s
    /\ \A i \in 1..(Len(parts) - 1) : ~IsEscaped(s, SeparatorPos(parts, i))
    /\ Len(parts) = 1 + Cardinality({ k \in DOMAIN s : s[k] = "&" /\ ~IsEscaped(s, k) })

\* C40: a backslash escapes the next character in the boolean parser and in
\* the flat '&' splitter: the backslash and the escaped character are both
\* kept in the literal, and an escaped '&', '|', ')' or whitespace neither
\* ends a literal run nor acts as an operator or as a segment separator.
C40_BackslashEscapes ==
    /\ ParsedDone =>
          /\ \A p \in 0..Len(raw) : MayStartRun(raw, p) => LiteralRunKeepsEscapes(raw, p)
          /\ (raw # <<>> /\ AllSpecialEscaped(raw)) => parsed = ExprOk(Pattern(raw))
    /\ (ppc = "selected" /\ matcher.ok /\ matcher.kind = "and") =>
          CutAtUnescaped(raw, matcher.parts)

\* C40 witness: a pattern string with an escaped '&' and a bare '&' has been
\* split in two segments, the first of which keeps the backslash and the '&'
C40_Witness ==
    /\ ppc = "selected" /\ matcher.ok /\ matcher.kind = "and"
    /\ Len(matcher.parts) = 2
    /\ \E k \in 2..Len(matcher.parts[1]) :
          matcher.parts[1][k] = "&" /\ matcher.parts[1][k - 1] = "\\"

====
